---- MODULE Spec2Model ----
(***************************************************************************)
(* A model of the core of the multi-device client: the socket (queries,   *)
(* end), the message relay (device fanout, sender-key memory), and the     *)
(* app-state sync loop with the processing mutex.                          *)
(*                                                                         *)
(* The module holds four specifications over one set of variables; each    *)
(* leaves the variables of the other subsystems unchanged:                 *)
(*   Spec       the socket: query / waitForMessage / onMessageRecieved /   *)
(*              end                                                        *)
(*   SpecRelay  relayMessage, getUSyncDevices, extractDeviceJids           *)
(*   SpecSync   resyncAppState (one call after another)                    *)
(*   SpecMutex  appPatch, resyncAppState and upsertMessage as concurrent   *)
(*              tasks over processingMutex                                 *)
(***************************************************************************)
EXTENDS Integers, Sequences, FiniteSets, TLC

(***************************************************************************)
(* Bounds of the model                                                     *)
(***************************************************************************)
\* number of query() calls followed
MaxQueries == 2
\* number of calls of end() followed
MaxEndCalls == 3
\* number of calls of resyncAppState followed
MaxCalls == 2
\* collection nodes sent for one collection within one call
MaxRequests == 3
\* highest version of a collection
MaxVersion == 2
\* asynchronous calls in progress at once
MaxTasks == 3
\* inbound frames followed
MaxFrames == 2
\* upsertMessage calls followed
MaxUpserts == 3
\* logout calls followed
MaxLogouts == 2
\* uploadPreKeys calls followed
MaxUploads == 3
\* largest count passed to uploadPreKeys
MaxCount == 2
\* largest pre-key id in the creds at the start
MaxStartId == 3
\* calls of getUSyncDevices, assertSessions and relays followed
MaxOps == 3
\* frames the router is followed for
MaxRoutes == 2
MaxCredsEmits == 3
MaxCredsValue == 2
\* the silence, in ms, up to which the time since the last frame is followed
SilenceCap == 20000

(***************************************************************************)
(* Program constants                                                       *)
(***************************************************************************)
MAX_SYNC_ATTEMPTS == 2
\* let qrMs = qrTimeout || 60_000
FIRST_QR_MS == 60000
\* qrMs = qrTimeout || 20_000
NEXT_QR_MS == 20000
\* if(diff > keepAliveIntervalMs + 5000)
KEEP_ALIVE_GRACE_MS == 5000

VARIABLES
    \* ---- socket (src/src/Socket/socket.ts) ----
    wsState,        \* ws.readyState
    wsListeners,    \* the socket's own listeners on ws: "open","message","close","error"
    closed,         \* let closed
    keepAliveReq,   \* the keep-alive interval is armed
    qrTimer,        \* the QR timer is armed
    evListening,    \* ev has its connection.update listeners
    evLog,          \* connection.update events handed to ev.emit, in order
    epoch,          \* let epoch
    queries,        \* the query() calls: their promise, listeners and outcome
    endCalls,       \* how many times end() has been called
    firstEndError,  \* the error of the first call of end()
    \* ---- relay (src/src/Socket/messages-send.ts) ----
    directory,          \* the device list the server reports for each user (USync)
    userDevicesCache,   \* userDevicesCache: user -> JidWithDevice[]
    senderKeyMemory,    \* keys 'sender-key-memory' of the group: jid -> true
    lastStanza,         \* the stanza the last relayMessage handed to sendNode
    \* ---- app-state sync (src/unnamed/part_001, resyncAppState) ----
    syncVersion,            \* keys 'app-state-sync-version': name -> version of the state
    rsPhase,                \* where the call of resyncAppState stands
    collectionsToHandle,    \* const collectionsToHandle
    attemptsMap,            \* const attemptsMap (0 for undefined)
    globalMutationMap,      \* const globalMutationMap: the keys it holds
    decoded,                \* the collections of `decoded` not handled yet
    mutationEvents,         \* what the last completed call handed to onMutation
    rsCalls,                \* calls of resyncAppState so far
    requests,               \* per collection: collection nodes sent in this call
    lastFailure,            \* the collection and error of the step just taken, if it failed
    callQuiet,              \* the server has sent no snapshot and no patch in this call
    versionAtCall,          \* syncVersion when the call (its transaction) began
    \* ---- tasks over processingMutex (src/unnamed/part_001, messages-send.ts) ----
    tasks,          \* the asynchronous calls in progress: entry point and position
    mutexHolder,    \* the task inside processingMutex.mutex, NoTask when free
    txHolder,       \* the task inside keys.transaction, NoTask when none
    txDepth,        \* transactions the holder has open, one inside the other
    \* ---- inbound frames and their handlers (src/src/Socket/socket.ts) ----
    qrTimeout,      \* config.qrTimeout, 0 when unset
    framesRouted,   \* frames onMessageRecieved has routed
    handlers,       \* per routed frame: the listener it started and where that stands
    armedTimers,    \* the pair-device handlers with a setTimeout(genPairQR) pending
    qrTimerOf,      \* the handler whose timeout the variable qrTimer holds
    frameLog,       \* what the handlers sent and emitted, in order
    \* ---- keep-alive (src/src/Socket/socket.ts, startKeepAliveRequest) ----
    handshake,      \* where validateConnection stands
    sinceRecv,      \* Date.now() - lastDateRecv.getTime(), followed up to SilenceCap
    untilTick,      \* ms until the keep-alive interval fires next
    lastTick,       \* what the last keep-alive tick did
    \* ---- event buffer and message upsert (src/unnamed/part_001, socket.ts) ----
    loggedIn,       \* creds.me?.id is set
    ticked,         \* the process.nextTick callback of makeSocket has run
    offlineSeen,    \* CB:ib,,offline was handled
    didStartBuffer,
    isBuffering,    \* the event buffer queues what is emitted
    bufQueue,       \* the events it holds, in insertion order
    delivered,      \* the events its subscribers have seen, in order
    myAppStateKeyId,        \* creds.myAppStateKeyId is set
    accountSyncCounter,     \* creds.accountSyncCounter
    pendingAppStateSync,
    needToFlushWithAppStateSync,
    upsert,         \* the upsertMessage call in progress
    upserts,        \* upsertMessage calls so far
    resyncRuns,     \* runs of resyncAppState(ALL_WA_PATCH_NAMES, true) completed
    keyArrived,     \* a message with appStateSyncKeyShare was processed
    \* ---- logout (src/src/Socket/socket.ts) ----
    logoutCalls,    \* per call of logout: where it stands
    \* ---- pre-key upload (src/src/Utils/signal.ts, socket.ts) ----
    pkCreds,        \* creds.firstUnuploadedPreKeyId, creds.nextPreKeyId
    pkStore,        \* ids present in the 'pre-key' namespace of the key store
    upload,         \* the uploadPreKeys call in progress, or the last one
    pkEmitted,      \* number of creds.update events emitted by uploadPreKeys
    uploads,        \* uploadPreKeys calls made
    pkWaiting,      \* counts of the calls waiting for the transaction
    \* ---- sessions and devices (src/src/Socket/messages-send.ts) ----
    sessionStore,   \* signal addresses with an entry in the 'session' namespace
    sessOp,         \* the call in progress, or the last one
    ops,            \* calls made
    \* ---- appPatch (src/unnamed/part_001) ----
    patch,          \* the appPatch call in progress, or the last one
    \* ---- the router of inbound frames (src/src/Socket/socket.ts) ----
    wsOn,           \* the event names ws has a listener for
    routed,         \* what onMessageRecieved did with the last frame
    routes,         \* frames decoded
    \* ---- the creds.update listener (src/src/Socket/socket.ts) ----
    sockCreds,      \* creds: me and the counters
    lastCredsUpdate,    \* what the listener did with the last creds.update
    credsEmits      \* creds.update events emitted

sockVars == <<wsState, wsListeners, closed, keepAliveReq, qrTimer, evListening,
              evLog, epoch, queries, endCalls, firstEndError>>

relayVars == <<directory, userDevicesCache, senderKeyMemory, lastStanza>>

syncVars == <<syncVersion, rsPhase, collectionsToHandle, attemptsMap, globalMutationMap,
              decoded, mutationEvents, rsCalls, requests, lastFailure, callQuiet,
              versionAtCall>>

mutexVars == <<tasks, mutexHolder, txHolder, txDepth>>

frameVars == <<qrTimeout, framesRouted, handlers, armedTimers, qrTimerOf, frameLog>>

kaVars == <<handshake, sinceRecv, untilTick, lastTick>>

bufVars == <<loggedIn, ticked, offlineSeen, didStartBuffer, isBuffering, bufQueue,
             delivered, myAppStateKeyId, accountSyncCounter, pendingAppStateSync,
             needToFlushWithAppStateSync, upsert, upserts, resyncRuns, keyArrived>>

logoutVars == <<logoutCalls>>
pkVars == <<pkCreds, pkStore, upload, pkEmitted, uploads, pkWaiting>>
sessVars == <<sessionStore, sessOp, ops>>
patchVars == <<patch>>
routerVars == <<wsOn, routed, routes>>
credsVars == <<sockCreds, lastCredsUpdate, credsEmits>>

vars == <<sockVars, relayVars, syncVars, mutexVars, frameVars, kaVars, bufVars, logoutVars, pkVars, sessVars, patchVars, routerVars, credsVars>>

\* what each part of the program leaves alone
offSocket == <<relayVars, syncVars, mutexVars, frameVars, kaVars, bufVars, logoutVars, pkVars, sessVars, patchVars, routerVars, credsVars>>
offRelay == <<sockVars, syncVars, mutexVars, frameVars, kaVars, bufVars, logoutVars, pkVars, sessVars, patchVars, routerVars, credsVars>>
offSync == <<sockVars, relayVars, mutexVars, frameVars, kaVars, bufVars, logoutVars, pkVars, sessVars, patchVars, routerVars, credsVars>>
offMutex == <<sockVars, relayVars, syncVars, frameVars, kaVars, bufVars, logoutVars, pkVars, sessVars, patchVars, routerVars, credsVars>>
offFrames == <<relayVars, syncVars, mutexVars, kaVars, bufVars, logoutVars, pkVars, sessVars, patchVars, routerVars, credsVars>>
offKeepAlive == <<relayVars, syncVars, mutexVars, frameVars, bufVars, logoutVars, pkVars, sessVars, patchVars, routerVars, credsVars>>
offBuffer == <<sockVars, relayVars, syncVars, mutexVars, frameVars, kaVars, logoutVars, pkVars, sessVars, patchVars, routerVars, credsVars>>
offLogout == <<relayVars, syncVars, mutexVars, frameVars, kaVars, bufVars, pkVars, sessVars, patchVars, routerVars, credsVars>>
offPreKeys == <<sockVars, relayVars, syncVars, mutexVars, frameVars, kaVars, bufVars, logoutVars, sessVars, patchVars, routerVars, credsVars>>
offSessions == <<sockVars, syncVars, mutexVars, frameVars, kaVars, bufVars, logoutVars, pkVars, patchVars, routerVars, credsVars>>
offPatch == <<sockVars, relayVars, mutexVars, frameVars, kaVars, bufVars, logoutVars, pkVars, sessVars, routerVars, credsVars>>
offRouter == <<sockVars, relayVars, syncVars, mutexVars, frameVars, kaVars, bufVars, logoutVars, pkVars, sessVars, patchVars, credsVars>>
offCreds == <<sockVars, relayVars, syncVars, mutexVars, frameVars, kaVars, bufVars, logoutVars, pkVars, sessVars, patchVars, routerVars>>

(***************************************************************************)
(* Socket                                                                  *)
(***************************************************************************)
QuerySlots == 1..MaxQueries

NoId == <<"none", 0>>
\* ids a caller may put in node.attrs.id itself
CallerIds == {<<"caller", 1>>}
\* an id no query of this connection carries (a server-initiated stanza)
ServerId == <<"server", 1>>

\* generateMessageTag: `${uqTagId}${epoch++}`
generateMessageTag(e) == <<"uq", e>>

\* the arguments ws hands to a 'close' listener: the close code (never falsy)
CloseCodes == {"1000", "1006"}
Falsy == ""

\* the errors end() is called with
EndErrors == {"connectionClosed", "connectionLost", "loggedOut", "streamError",
              "wsError", "undefined"}

IdleQuery == [st |-> "idle", id |-> NoId, wait |-> "none", tagL |-> FALSE,
              closeL |-> FALSE, err |-> "none", frameId |-> NoId,
              pendAtEnd |-> FALSE]

InitSocket ==
    /\ wsState = "CONNECTING"
    /\ wsListeners = {"open", "message", "close", "error"}
    /\ closed = FALSE
    /\ keepAliveReq = FALSE
    /\ qrTimer = FALSE
    /\ evListening = TRUE
    /\ evLog = <<>>
    /\ epoch = 1
    /\ queries = [q \in QuerySlots |-> IdleQuery]
    /\ endCalls = 0
    /\ firstEndError = "none"

\* onErr of waitForMessage: reject(err || new Boom('Connection Closed', connectionClosed))
RejectReason(arg) == IF arg = Falsy THEN "connectionClosed" ELSE arg

\* ws.emit(`TAG:${msgId}`, frame) reaches the listener query q registered
TagMatches_AnyTag(q, f) == queries[q].tagL
TagMatches(q, f) == queries[q].tagL /\ queries[q].id = f.id

\* the finally block of waitForMessage: ws.off(TAG), ws.off('close'), ws.off('error')
SettleWait(rec, how) == [rec EXCEPT !.wait = how, !.tagL = FALSE, !.closeL = FALSE]

\* the state end() leaves: the values of closed, the timers, the listeners,
\* ws.readyState (ready is its value when end is called) and the events emitted
EndEffect_NoGuard(err, ready) ==
    /\ closed' = TRUE
    /\ keepAliveReq' = FALSE
    /\ qrTimer' = FALSE
    /\ wsListeners' = {}
    /\ wsState' = IF ready \notin {"CLOSED", "CLOSING"} THEN "CLOSING" ELSE ready
    /\ evLog' = Append(evLog, [connection |-> "close", error |-> err])
    /\ evListening' = FALSE
EndEffect(err, ready) ==
    IF closed
    THEN /\ wsState' = ready
         /\ UNCHANGED <<closed, keepAliveReq, qrTimer, wsListeners, evLog, evListening>>
    ELSE /\ closed' = TRUE
         /\ keepAliveReq' = FALSE
         /\ qrTimer' = FALSE
         /\ wsListeners' = {}
         /\ wsState' = IF ready \notin {"CLOSED", "CLOSING"} THEN "CLOSING" ELSE ready
         /\ evLog' = Append(evLog, [connection |-> "close", error |-> err])
         /\ evListening' = FALSE

\* ws.removeAllListeners('close') in end() also removes the onErr listeners the
\* pending waitForMessage calls registered
QueriesAfterEnd ==
    IF closed THEN queries
    ELSE [q \in QuerySlots |->
            [queries[q] EXCEPT !.closeL = FALSE,
                               !.pendAtEnd = (queries[q].st = "pending")]]

\* one call of end(err), ws.readyState being ready
end(err, ready) ==
    /\ endCalls < MaxEndCalls
    /\ endCalls' = endCalls + 1
    /\ firstEndError' = IF endCalls = 0 THEN err ELSE firstEndError
    /\ EndEffect(err, ready)

\* ws 'open': validateConnection completes the handshake and starts the keep-alive
WsOpen ==
    /\ wsState = "CONNECTING"
    /\ wsState' = "OPEN"
    /\ keepAliveReq' = ("open" \in wsListeners)
    /\ UNCHANGED <<wsListeners, closed, qrTimer, evListening, evLog, epoch, queries,
                   endCalls, firstEndError>>

\* query(node): waitForMessage registers its listeners, then sendNode
Query(q, given) ==
    /\ queries[q].st = "idle"
    /\ \A p \in QuerySlots : p < q => queries[p].st # "idle"
    /\ LET id == IF given = NoId THEN generateMessageTag(epoch) ELSE given
           sent == wsState = "OPEN"
       IN /\ epoch' = IF given = NoId THEN epoch + 1 ELSE epoch
          /\ queries' = [queries EXCEPT ![q] =
                [st |-> IF sent THEN "pending" ELSE "failed",
                 id |-> id, wait |-> "pending", tagL |-> TRUE, closeL |-> TRUE,
                 err |-> IF sent THEN "none" ELSE "connectionClosed",
                 frameId |-> NoId, pendAtEnd |-> FALSE]]
    /\ UNCHANGED <<wsState, wsListeners, closed, keepAliveReq, qrTimer, evListening,
                   evLog, endCalls, firstEndError>>

\* onMessageRecieved for a binary node: ws.emit(`TAG:${frame.attrs.id}`, frame)
onMessageRecieved(f) ==
    /\ wsState = "OPEN"
    /\ "message" \in wsListeners
    /\ queries' = [q \in QuerySlots |->
          IF TagMatches(q, f) /\ queries[q].wait = "pending"
          THEN LET r == SettleWait(queries[q], "resolved")
               IN IF queries[q].st # "pending" THEN r
                  ELSE IF f.error
                       THEN [r EXCEPT !.st = "failed", !.err = "nodeError"]
                       ELSE [r EXCEPT !.st = "ok", !.frameId = f.id]
          ELSE queries[q]]
    /\ UNCHANGED <<wsState, wsListeners, closed, keepAliveReq, qrTimer, evListening,
                   evLog, epoch, endCalls, firstEndError>>

\* promiseTimeout fires for the wait of query q
QueryTimeout(q) ==
    /\ queries[q].wait = "pending"
    /\ queries' = [queries EXCEPT ![q] =
          LET r == SettleWait(queries[q], "timedOut")
          IN IF queries[q].st = "pending"
             THEN [r EXCEPT !.st = "failed", !.err = "timedOut"]
             ELSE r]
    /\ UNCHANGED <<wsState, wsListeners, closed, keepAliveReq, qrTimer, evListening,
                   evLog, epoch, endCalls, firstEndError>>

\* ws emits 'close' with its code: the listeners registered at that moment run,
\* the socket's own (which calls end) and the onErr of every waiting query
WsCloseEvent(code) ==
    /\ wsState # "CLOSED"
    /\ IF "close" \in wsListeners
       THEN end("connectionClosed", "CLOSED")
       ELSE /\ wsState' = "CLOSED"
            /\ UNCHANGED <<closed, keepAliveReq, qrTimer, wsListeners, evLog,
                           evListening, endCalls, firstEndError>>
    /\ queries' = [q \in QuerySlots |->
          IF queries[q].closeL /\ queries[q].wait = "pending"
          THEN LET r == [SettleWait(queries[q], "rejected") EXCEPT
                            !.pendAtEnd = ("close" \in wsListeners
                                           /\ ~closed /\ queries[q].st = "pending")]
               IN IF queries[q].st = "pending"
                  THEN [r EXCEPT !.st = "failed", !.err = RejectReason(code)]
                  ELSE r
          ELSE queries[q]]
    /\ UNCHANGED epoch

\* ws emits 'error': ws.on('error', mapWebSocketError(end))
WsErrorEvent ==
    /\ "error" \in wsListeners
    /\ end("wsError", wsState)
    /\ queries' = QueriesAfterEnd
    /\ UNCHANGED epoch

\* CB:stream:error, CB:failure, CB:xmlstreamend, CB:ib,,downgrade_webclient
StreamEnd(err) ==
    /\ wsState = "OPEN"
    /\ "message" \in wsListeners
    /\ end(err, wsState)
    /\ queries' = QueriesAfterEnd
    /\ UNCHANGED epoch

\* the keep-alive interval finds the last frame too old
KeepAliveLost ==
    /\ keepAliveReq
    /\ end("connectionLost", wsState)
    /\ queries' = QueriesAfterEnd
    /\ UNCHANGED epoch

\* end(error) called by the user of the socket, or by logout()
CallEnd(err) ==
    /\ end(err, wsState)
    /\ queries' = QueriesAfterEnd
    /\ UNCHANGED epoch

FrameIds == {queries[q].id : q \in QuerySlots} \cup {ServerId}

NextSocket ==
    \/ WsOpen
    \/ \E q \in QuerySlots, given \in CallerIds \cup {NoId} : Query(q, given)
    \/ \E id \in FrameIds, e \in BOOLEAN : onMessageRecieved([id |-> id, error |-> e])
    \/ \E q \in QuerySlots : QueryTimeout(q)
    \/ \E code \in CloseCodes : WsCloseEvent(code)
    \/ WsErrorEvent
    \/ \E err \in {"streamError", "connectionClosed"} : StreamEnd(err)
    \/ KeepAliveLost
    \/ \E err \in {"loggedOut", "undefined"} : CallEnd(err)


(***************************************************************************)
(* Relay                                                                   *)
(***************************************************************************)
MyUser == "me"
\* the device of authState.creds.me.id: this client is a companion device
MyDevice == 1
Users == {"me", "a"}
DeviceIds == {0, 1, 2}
\* a JidWithDevice without device: { user }
NoDevice == -1
\* userDevicesCache.get(user) finds nothing
NoEntry == [present |-> FALSE, devices |-> <<>>]
\* the group relayed to
GroupJid == [user |-> "group", device |-> 0]
NoJid == [user |-> "none", device |-> 0]

\* jidEncode(user, 's.whatsapp.net', device): the device part is written only
\* for a device that is neither absent nor 0
jidEncode(user, device) == [user |-> user, device |-> IF device = NoDevice THEN 0 ELSE device]
\* jidDecode(jid) as { user, device }
jidDecode(jid) == [user |-> jid.user, device |-> jid.device]

UserJids == {jidEncode(u, d) : u \in Users, d \in DeviceIds}

\* a child of a device-list node of the USync result
Dev(id, k) == [tag |-> "device", id |-> id, keyIndex |-> k]
\* the device lists the server may report for a user
DeviceLists ==
    { <<Dev(0, FALSE), Dev(1, TRUE)>>,
      <<Dev(0, FALSE), Dev(1, TRUE), Dev(2, FALSE)>>,
      <<Dev(1, TRUE), [tag |-> "other", id |-> 0, keyIndex |-> FALSE], Dev(2, TRUE)>> }

NoStanza == [kind |-> "none", participant |-> NoJid, to |-> <<>>,
             fanout |-> "absent", skmsg |-> 0, additional |-> "absent",
             memBefore |-> {}, targets |-> {}, peer |-> "none"]

InitRelay ==
    /\ directory \in [Users -> DeviceLists]
    /\ userDevicesCache = [u \in Users |-> NoEntry]
    /\ senderKeyMemory = {}
    /\ lastStanza = NoStanza

\* the test of extractDeviceJids on one child of a device-list
AcceptDevice_WithOwn(user, e, excludeZeroDevices) ==
    /\ e.tag = "device"
    /\ (~excludeZeroDevices \/ e.id # 0)
    /\ (e.id = 0 \/ e.keyIndex)
AcceptDevice(user, e, excludeZeroDevices) ==
    /\ e.tag = "device"
    /\ (~excludeZeroDevices \/ e.id # 0)
    /\ (MyUser # user \/ MyDevice # e.id)
    /\ (e.id = 0 \/ e.keyIndex)

\* extractDeviceJids for the item of one user
ExtractUser(user, list, excludeZeroDevices) ==
    LET sel == SelectSeq(list, LAMBDA e : AcceptDevice(user, e, excludeZeroDevices))
    IN [i \in 1..Len(sel) |-> [user |-> user, device |-> sel[i].id]]

\* jids = Array.from(new Set(jids))
RECURSIVE Dedupe(_)
Dedupe(seq) ==
    IF seq = <<>> THEN <<>>
    ELSE LET init == Dedupe(SubSeq(seq, 1, Len(seq) - 1))
             x == seq[Len(seq)]
         IN IF \E i \in 1..Len(init) : init[i] = x THEN init ELSE Append(init, x)

\* the loop of getUSyncDevices over jids: cached devices, and the users to query
RECURSIVE CacheScan(_, _)
CacheScan(jids, useCache) ==
    IF jids = <<>> THEN [devs |-> <<>>, users |-> <<>>]
    ELSE LET rest == CacheScan(Tail(jids), useCache)
             user == jidDecode(Head(jids)).user
             devices == userDevicesCache[user]
         IN IF devices.present /\ useCache
            THEN [devs |-> devices.devices \o rest.devs, users |-> rest.users]
            ELSE [devs |-> rest.devs, users |-> <<user>> \o rest.users]

\* extractDeviceJids(result, meId, excludeZeroDevices): the server answers with
\* one item for each user asked for
RECURSIVE ExtractAll(_, _)
ExtractAll(users, excludeZeroDevices) ==
    IF users = <<>> THEN <<>>
    ELSE ExtractUser(Head(users), directory[Head(users)], excludeZeroDevices)
            \o ExtractAll(Tail(users), excludeZeroDevices)

\* getUSyncDevices(jids, useCache, ignoreZeroDevices): the devices returned and
\* the cache it leaves
getUSyncDevices(jids, useCache, ignoreZeroDevices) ==
    LET scan == CacheScan(Dedupe(jids), useCache)
        extracted == ExtractAll(Dedupe(scan.users), ignoreZeroDevices)
        deviceMap(u) == SelectSeq(extracted, LAMBDA d : d.user = u)
    IN [devices |-> scan.devs \o extracted,
        cache |-> [u \in Users |->
                    IF deviceMap(u) # <<>>
                    THEN [present |-> TRUE, devices |-> deviceMap(u)]
                    ELSE userDevicesCache[u]]]

\* the jids of a list of devices
Encode(devices) == [i \in 1..Len(devices) |-> jidEncode(devices[i].user, devices[i].device)]
SeqRange(seq) == {seq[i] : i \in 1..Len(seq)}

\* additionalAttributes merged for a relay with a participant:
\* { ...additionalAttributes, device_fanout: 'false' } when the chat is no group
FanoutAttr_KeepCallers(additional, hasParticipant, isGroup) ==
    IF additional # "absent" THEN additional
    ELSE IF hasParticipant /\ ~isGroup THEN "false" ELSE "absent"
FanoutAttr(additional, hasParticipant, isGroup) ==
    IF hasParticipant /\ ~isGroup THEN "false" ELSE additional

\* the loop over devices of the group branch: the jids that get the sender key,
\* and the sender-key map it leaves
RECURSIVE SenderKeyLoop_Always(_, _, _)
SenderKeyLoop_Always(devices, senderKeyMap, retry) ==
    IF devices = <<>> THEN [jids |-> <<>>, map |-> senderKeyMap]
    ELSE LET jid == jidEncode(Head(devices).user, Head(devices).device)
             rest == SenderKeyLoop_Always(Tail(devices), senderKeyMap \cup {jid}, retry)
         IN [jids |-> <<jid>> \o rest.jids, map |-> rest.map]
RECURSIVE SenderKeyLoop(_, _, _)
SenderKeyLoop(devices, senderKeyMap, retry) ==
    IF devices = <<>> THEN [jids |-> <<>>, map |-> senderKeyMap]
    ELSE LET jid == jidEncode(Head(devices).user, Head(devices).device)
         IN IF jid \notin senderKeyMap \/ retry
            THEN LET rest == SenderKeyLoop(Tail(devices), senderKeyMap \cup {jid}, retry)
                 IN [jids |-> <<jid>> \o rest.jids, map |-> rest.map]
            ELSE SenderKeyLoop(Tail(devices), senderKeyMap, retry)

\* the users of a group, as groupMetadata lists them
ParticipantLists == {<<"a">>, <<"me">>, <<"a", "me">>}
ParticipantJids(list) == [i \in 1..Len(list) |-> jidEncode(list[i], NoDevice)]

\* relayMessage to the group, participant being NoJid for a normal send
RelayGroup(participantsList, participant, useUserDevicesCache, additional) ==
    LET retry == participant # NoJid
        usync == getUSyncDevices(ParticipantJids(participantsList), useUserDevicesCache, FALSE)
        devices == IF retry THEN <<jidDecode(participant)>> ELSE usync.devices
        senderKeyMap == IF retry THEN {} ELSE senderKeyMemory
        loop == SenderKeyLoop(devices, senderKeyMap, retry)
    IN /\ userDevicesCache' = IF retry THEN userDevicesCache ELSE usync.cache
       /\ senderKeyMemory' = loop.map
       /\ lastStanza' = [kind |-> "group", participant |-> participant,
                         to |-> loop.jids,
                         fanout |-> FanoutAttr(additional, retry, TRUE),
                         skmsg |-> 1, additional |-> additional,
                         memBefore |-> senderKeyMemory,
                         targets |-> SeqRange(Encode(devices)), peer |-> "group"]
       /\ UNCHANGED directory

\* the devices of the 1-1 branch
DirectDevices(peer, participant, useUserDevicesCache, usync) ==
    IF participant # NoJid
    THEN <<jidDecode(participant)>>
    ELSE <<[user |-> peer, device |-> NoDevice], [user |-> MyUser, device |-> NoDevice]>>
            \o usync.devices

\* relayMessage to a user, participant being NoJid for a normal send
RelayDirect(peer, participant, useUserDevicesCache, additional) ==
    LET retry == participant # NoJid
        usync == getUSyncDevices(<<jidEncode(MyUser, MyDevice), jidEncode(peer, NoDevice)>>,
                                 useUserDevicesCache, TRUE)
        devices == DirectDevices(peer, participant, useUserDevicesCache, usync)
        allJids == Encode(devices)
        meJids == SelectSeq(allJids, LAMBDA j : j.user = MyUser)
        otherJids == SelectSeq(allJids, LAMBDA j : j.user # MyUser)
    IN /\ userDevicesCache' = IF retry THEN userDevicesCache ELSE usync.cache
       /\ lastStanza' = [kind |-> "direct", participant |-> participant,
                         to |-> meJids \o otherJids,
                         fanout |-> FanoutAttr(additional, retry, FALSE),
                         skmsg |-> 0, additional |-> additional,
                         memBefore |-> {}, targets |-> SeqRange(allJids), peer |-> peer]
       /\ UNCHANGED <<directory, senderKeyMemory>>

\* an entry of userDevicesCache outlives its TTL
CacheExpire(u) ==
    /\ userDevicesCache[u].present
    /\ userDevicesCache' = [userDevicesCache EXCEPT ![u] = NoEntry]
    /\ UNCHANGED <<directory, senderKeyMemory, lastStanza>>

\* the participant of a retry receipt
RetryJids == {jidEncode("a", 2), jidEncode(MyUser, 2)}
\* device_fanout as the caller's additionalAttributes give it
FanoutChoices == {"absent", "true"}

NextRelay ==
    \/ \E pl \in ParticipantLists, uc \in BOOLEAN :
          RelayGroup(pl, NoJid, uc, "absent") /\ UNCHANGED offRelay
    \/ \E p \in RetryJids, ad \in FanoutChoices :
          RelayGroup(<<"a", "me">>, p, TRUE, ad) /\ UNCHANGED offRelay
    \/ \E peer \in Users, uc \in BOOLEAN :
          RelayDirect(peer, NoJid, uc, "absent") /\ UNCHANGED offRelay
    \/ \E peer \in Users, p \in RetryJids, ad \in FanoutChoices :
          RelayDirect(peer, p, TRUE, ad) /\ UNCHANGED offRelay
    \/ \E u \in Users : CacheExpire(u) /\ UNCHANGED offRelay

InitIdle ==
    /\ directory = [u \in Users |-> <<>>]
    /\ userDevicesCache = [u \in Users |-> NoEntry]
    /\ senderKeyMemory = {}
    /\ lastStanza = NoStanza

(***************************************************************************)
(* App-state sync: resyncAppState                                          *)
(*                                                                         *)
(* An LTHashState is followed by its version, a mutationMap by the         *)
(* collections it has entries of.  One call runs at a time; its steps are  *)
(* the stretches between two awaits: sending the sync query, the answer,   *)
(* and the handling of each decoded collection.  The locals of a call are  *)
(* cleared when it returns.  initialVersionMap, which only the decoders    *)
(* read, is not followed.                                                  *)
(***************************************************************************)
Names == {"critical_block", "regular"}
\* no state stored (null), no initial version recorded (undefined)
NoVersion == -1
\* the version of newLTHashState()
NewStateVersion == 0
\* the version of a state restored from a snapshot
SnapshotVersion == 1
\* what the decoding of a collection can throw: a Boom of a failed
\* verification, a Boom with statusCode 404 (key not found), a TypeError
Errors == {"macMismatch", "notFound", "TypeError"}
NoFailure == <<"none", "none">>

\* what the server answers for one collection, and how its decoding ends
Outcomes ==
    {o \in [snapshot : BOOLEAN, patches : 0..1, hasMorePatches : BOOLEAN,
            error : Errors \cup {"none"}, failsIn : {"none", "snapshot", "patches"}] :
        /\ (o.error = "none") = (o.failsIn = "none")
        /\ o.failsIn = "snapshot" => (o.snapshot /\ o.patches = 0 /\ ~o.hasMorePatches)
        /\ o.failsIn = "patches" => (o.patches > 0 /\ ~o.hasMorePatches)}

InitSync ==
    /\ syncVersion = [n \in Names |-> NoVersion]
    /\ rsPhase = "idle"
    /\ collectionsToHandle = {}
    /\ attemptsMap = [n \in Names |-> 0]
    /\ globalMutationMap = {}
    /\ decoded = {}
    /\ mutationEvents = {}
    /\ rsCalls = 0
    /\ requests = [n \in Names |-> 0]
    /\ lastFailure = NoFailure
    /\ callQuiet = TRUE
    /\ versionAtCall = [n \in Names |-> NoVersion]

\* resyncAppState(collections, isInitialSync) is called: the transaction
\* opens with an empty attemptsMap
resyncAppState(collections) ==
    /\ rsPhase = "idle"
    /\ rsCalls < MaxCalls
    /\ rsCalls' = rsCalls + 1
    /\ rsPhase' = "loop"
    /\ collectionsToHandle' = collections
    /\ attemptsMap' = [n \in Names |-> 0]
    /\ globalMutationMap' = {}
    /\ requests' = [n \in Names |-> 0]
    /\ lastFailure' = NoFailure
    /\ callQuiet' = TRUE
    /\ versionAtCall' = syncVersion
    /\ mutationEvents' = {}
    /\ UNCHANGED <<syncVersion, decoded>>

\* states[name] as the for loop over collectionsToHandle sets it: the stored
\* state, or newLTHashState()
states(name) ==
    IF syncVersion[name] # NoVersion THEN syncVersion[name] ELSE NewStateVersion

\* one pass of the for loop that builds the nodes, and the query sent
SendSyncQuery ==
    /\ rsPhase = "loop"
    /\ collectionsToHandle # {}
    /\ \A n \in collectionsToHandle : requests[n] < MaxRequests
    /\ requests' = [n \in Names |->
                    IF n \in collectionsToHandle THEN requests[n] + 1 ELSE requests[n]]
    /\ rsPhase' = "query"
    /\ lastFailure' = NoFailure
    /\ UNCHANGED <<syncVersion, collectionsToHandle, attemptsMap, globalMutationMap,
                   decoded, mutationEvents, rsCalls, callQuiet, versionAtCall>>

\* the answer arrives; extractSyncdPatches gives the collections it holds
QueryAnswered(present) ==
    /\ rsPhase = "query"
    /\ decoded' = present
    /\ rsPhase' = IF present = {} THEN "loop" ELSE "decode"
    /\ UNCHANGED <<syncVersion, collectionsToHandle, attemptsMap, globalMutationMap,
                   mutationEvents, rsCalls, requests, lastFailure, callQuiet,
                   versionAtCall>>

\* the query throws (timeout, connection closed): the call rejects, the
\* transaction is not committed and onMutation is not reached
QueryThrows ==
    /\ rsPhase = "query"
    /\ rsPhase' = "idle"
    /\ syncVersion' = versionAtCall
    /\ collectionsToHandle' = {}
    /\ attemptsMap' = [n \in Names |-> 0]
    /\ globalMutationMap' = {}
    /\ requests' = [n \in Names |-> 0]
    /\ callQuiet' = FALSE
    /\ UNCHANGED <<decoded, mutationEvents, rsCalls, lastFailure, versionAtCall>>

\* const isIrrecoverableError
IsIrrecoverable_Late(attempts, error) ==
    attempts > MAX_SYNC_ATTEMPTS \/ error = "notFound" \/ error = "TypeError"
IsIrrecoverable(attempts, error) ==
    attempts >= MAX_SYNC_ATTEMPTS \/ error = "notFound" \/ error = "TypeError"

\* keys.set({ 'app-state-sync-version': { [name]: null } }) of the catch branch
WipeOnFailure_All(versions, name) ==
    [n \in Names |-> NoVersion]
WipeOnFailure(versions, name) ==
    [versions EXCEPT ![name] = NoVersion]

\* the stored state after the patches of the answer: set only when there are
\* patches
StoreAfterPatches_Always(patches, stored, newState) ==
    newState
StoreAfterPatches(patches, stored, newState) ==
    IF patches > 0 THEN newState ELSE stored

\* the keys a decoded snapshot or patch list puts in its mutationMap
MutationKeys(name) == {name}

\* the body of `for(const key in decoded)` for one collection
HandleDecoded(name, o) ==
    LET \* if(snapshot) ... when decodeSyncdSnapshot does not throw
        snapOk == o.snapshot /\ o.failsIn # "snapshot"
        state1 == IF snapOk THEN SnapshotVersion ELSE states(name)
        stored1 == IF snapOk THEN SnapshotVersion ELSE syncVersion[name]
        map1 == IF snapOk THEN globalMutationMap \cup MutationKeys(name)
                          ELSE globalMutationMap
        \* if(patches.length) ... when decodePatches does not throw
        patchOk == o.patches > 0 /\ o.failsIn = "none"
        state2 == IF patchOk THEN state1 + o.patches ELSE state1
        stored2 == StoreAfterPatches(IF o.failsIn = "none" THEN o.patches ELSE 0,
                                     stored1, state2)
        map2 == IF patchOk THEN map1 \cup MutationKeys(name) ELSE map1
        rest == decoded \ {name}
    IN /\ rsPhase = "decode"
       /\ name \in decoded
       /\ patchOk => state1 + o.patches <= MaxVersion
       /\ decoded' = rest
       /\ rsPhase' = IF rest = {} THEN "loop" ELSE "decode"
       /\ globalMutationMap' = map2
       /\ callQuiet' = (callQuiet /\ ~o.snapshot /\ o.patches = 0)
       /\ IF o.error = "none"
          THEN /\ syncVersion' = [syncVersion EXCEPT ![name] = stored2]
               /\ collectionsToHandle' = IF o.hasMorePatches
                                         THEN collectionsToHandle
                                         ELSE collectionsToHandle \ {name}
               /\ lastFailure' = NoFailure
               /\ UNCHANGED attemptsMap
          ELSE /\ syncVersion' = WipeOnFailure([syncVersion EXCEPT ![name] = stored2], name)
               /\ attemptsMap' = [attemptsMap EXCEPT ![name] = @ + 1]
               /\ collectionsToHandle' =
                      IF IsIrrecoverable(attemptsMap[name], o.error)
                      THEN collectionsToHandle \ {name}
                      ELSE collectionsToHandle
               /\ lastFailure' = <<name, o.error>>
       /\ UNCHANGED <<mutationEvents, rsCalls, requests, versionAtCall>>

\* the loop has ended: the transaction commits and onMutation gets every
\* entry of globalMutationMap
FinishResync ==
    /\ rsPhase = "loop"
    /\ collectionsToHandle = {}
    /\ rsPhase' = "idle"
    /\ mutationEvents' = globalMutationMap
    /\ lastFailure' = NoFailure
    /\ attemptsMap' = [n \in Names |-> 0]
    /\ globalMutationMap' = {}
    /\ requests' = [n \in Names |-> 0]
    /\ UNCHANGED <<syncVersion, collectionsToHandle, decoded, rsCalls, callQuiet,
                   versionAtCall>>

\* the collections a call is made for
CollectionChoices == {{"regular"}, {"critical_block", "regular"}}

NextSync ==
    \/ \E c \in CollectionChoices : resyncAppState(c) /\ UNCHANGED offSync
    \/ SendSyncQuery /\ UNCHANGED offSync
    \/ \E present \in SUBSET collectionsToHandle :
          QueryAnswered(present) /\ UNCHANGED offSync
    \/ QueryThrows /\ UNCHANGED offSync
    \/ \E n \in Names, o \in Outcomes :
          HandleDecoded(n, o) /\ UNCHANGED offSync
    \/ FinishResync /\ UNCHANGED offSync


(***************************************************************************)
(* The entry points of the sync engine as concurrent tasks                 *)
(*                                                                         *)
(* A task is one asynchronous call from outside; it moves from one await   *)
(* to the next.  What resyncAppState does with the collections is followed *)
(* above; here its body is the position "resync".  processingMutex lets    *)
(* one task in at a time; keys.transaction lets one task in at a time, and *)
(* a transaction opened inside another by the same task reuses it.         *)
(***************************************************************************)
TaskIds == 1..MaxTasks
NoTask == 0
\* the functions a caller of the socket can start a cycle with
EntryPoints == {"appPatch", "resyncAppState", "upsertMessage", "sendMessage"}
IdleTask == [entry |-> "none", pc |-> "idle"]

InitMutex ==
    /\ tasks = [t \in TaskIds |-> IdleTask]
    /\ mutexHolder = NoTask
    /\ txHolder = NoTask
    /\ txDepth = 0

\* where a call of each entry point first waits
FirstAwait(entry) ==
    CASE entry = "appPatch" -> "waitMutex"          \* await processingMutex.mutex(
      [] entry = "sendMessage" -> "waitMutex"       \* processingMutex.mutex(() => upsertMessage(
      [] entry = "resyncAppState" -> "waitTx"       \* await authState.keys.transaction(
      [] entry = "upsertMessage" -> "upsert"        \* emits, then await Promise.all([

\* a caller starts appPatch, resyncAppState, upsertMessage or sendMessage
Call(t, entry) ==
    /\ tasks[t].pc = "idle"
    /\ tasks' = [tasks EXCEPT ![t] = [entry |-> entry, pc |-> FirstAwait(entry)]]
    /\ UNCHANGED <<mutexHolder, txHolder, txDepth>>

\* processingMutex.mutex runs the task's code
MutexAcquired(t) ==
    /\ tasks[t].pc = "waitMutex"
    /\ mutexHolder = NoTask
    /\ mutexHolder' = t
    /\ tasks' = [tasks EXCEPT ![t].pc =
                    IF tasks[t].entry = "appPatch" THEN "waitTx" ELSE "upsert"]
    /\ UNCHANGED <<txHolder, txDepth>>

\* keys.transaction runs the task's code; in appPatch that code calls
\* resyncAppState at once, whose own transaction reuses the open one
TransactionOpened(t) ==
    /\ tasks[t].pc = "waitTx"
    /\ txHolder \in {NoTask, t}
    /\ txHolder' = t
    /\ txDepth' = txDepth + (IF tasks[t].entry = "appPatch" THEN 2 ELSE 1)
    /\ tasks' = [tasks EXCEPT ![t].pc = "resync"]
    /\ UNCHANGED mutexHolder

\* processingMutex is left by the task that holds it
Released(t) == IF mutexHolder = t THEN NoTask ELSE mutexHolder

\* the loop of resyncAppState ends, its transaction closes and its
\* mutations are emitted; the caller goes on
ResyncReturns(t) ==
    /\ tasks[t].pc = "resync"
    /\ txDepth' = txDepth - 1
    /\ txHolder' = IF txDepth = 1 THEN NoTask ELSE txHolder
    /\ IF tasks[t].entry = "appPatch"
       THEN /\ tasks' = [tasks EXCEPT ![t].pc = "patchQuery"]
            /\ UNCHANGED mutexHolder
       ELSE IF tasks[t].entry = "resyncAppState"
       THEN /\ tasks' = [tasks EXCEPT ![t] = IdleTask]
            /\ UNCHANGED mutexHolder
       ELSE \* doAppStateSync goes on, upsertMessage returns
            /\ tasks' = [tasks EXCEPT ![t] = IdleTask]
            /\ mutexHolder' = Released(t)

\* appPatch: the patch is sent and answered, the new state stored, the
\* transaction and the mutex left
PatchSent(t) ==
    /\ tasks[t].pc = "patchQuery"
    /\ txDepth' = txDepth - 1
    /\ txHolder' = NoTask
    /\ mutexHolder' = Released(t)
    /\ tasks' = [tasks EXCEPT ![t] = IdleTask]

\* upsertMessage: processMessage is done; with a history message and the
\* app-state key doAppStateSync calls resyncAppState, else the call returns
UpsertProcessed(t, doAppStateSync) ==
    /\ tasks[t].pc = "upsert"
    /\ IF doAppStateSync
       THEN /\ tasks' = [tasks EXCEPT ![t].pc = "waitTx"]
            /\ UNCHANGED mutexHolder
       ELSE /\ tasks' = [tasks EXCEPT ![t] = IdleTask]
            /\ mutexHolder' = Released(t)
    /\ UNCHANGED <<txHolder, txDepth>>

NextMutex ==
    \/ \E t \in TaskIds, e \in EntryPoints :
          Call(t, e) /\ UNCHANGED offMutex
    \/ \E t \in TaskIds : MutexAcquired(t) /\ UNCHANGED offMutex
    \/ \E t \in TaskIds : TransactionOpened(t) /\ UNCHANGED offMutex
    \/ \E t \in TaskIds : ResyncReturns(t) /\ UNCHANGED offMutex
    \/ \E t \in TaskIds : PatchSent(t) /\ UNCHANGED offMutex
    \/ \E t \in TaskIds, d \in BOOLEAN :
          UpsertProcessed(t, d) /\ UNCHANGED offMutex

(***************************************************************************)
(* Inbound frames and their handlers                                       *)
(*                                                                         *)
(* onMessageRecieved routes a frame with ws.emit, which runs each listener *)
(* up to its first await and returns.  A handler is followed from one      *)
(* await to the next.  The frames are those whose listeners await:         *)
(* CB:success, CB:iq,type:set,pair-device, CB:iq,,pair-success and         *)
(* CB:ib,,dirty, and "other" for a frame whose listeners do not.  A        *)
(* handler ends at "done", at "rejected" when an await of it threw with    *)
(* nothing to catch it, or at "caught" when its catch branch has run.      *)
(***************************************************************************)
FrameSlots == 1..MaxFrames
NoFrame == 0
\* config.qrTimeout: unset, or a lifetime in ms
QrTimeouts == {0, 30000}
\* the <ref> children a pair-device stanza can carry
RefLists == {<<>>, <<"r1", "r2">>}
NoHandler == [kind |-> "none", pc |-> "none", given |-> <<>>, refs |-> <<>>, qrMs |-> 0,
              preKeyCount |-> 0]
\* stanza.attrs.id of the k-th frame
StanzaId(k) == <<"server", k>>

InitFrames ==
    /\ qrTimeout \in QrTimeouts
    /\ framesRouted = 0
    /\ handlers = [k \in FrameSlots |-> NoHandler]
    /\ armedTimers = {}
    /\ qrTimerOf = NoFrame
    /\ frameLog = <<>>

\* one entry of frameLog: frame k's handler sent or emitted `what`
Entry(k, what, ref, ms) == [frame |-> k, what |-> what, ref |-> ref, ms |-> ms]

\* the handler of frame k waits on an await
Suspended(k) == handlers[k].pc \notin {"none", "done", "rejected", "caught"}

\* the timeout of handler k is pending: set, and not cleared through qrTimer
Armed(k) == k \in armedTimers /\ (k # qrTimerOf \/ qrTimer)

\* let qrMs = qrTimeout || 60_000
FirstQrMs_Short(timeout) == IF timeout # 0 THEN timeout ELSE NEXT_QR_MS
FirstQrMs(timeout) == IF timeout # 0 THEN timeout ELSE FIRST_QR_MS

\* qrMs = qrTimeout || 20_000
NextQrMs(timeout) == IF timeout # 0 THEN timeout ELSE NEXT_QR_MS

\* refNodes.shift(): the ref taken and the refs left
ShiftRef_Pop(refs) == [ref |-> refs[Len(refs)], rest |-> SubSeq(refs, 1, Len(refs) - 1)]
ShiftRef(refs) == [ref |-> Head(refs), rest |-> Tail(refs)]

\* the socket's state but qrTimer
sockButTimer == <<wsState, wsListeners, closed, keepAliveReq, evListening, evLog, epoch,
                  queries, endCalls, firstEndError>>

\* genPairQR of the pair-device handler k, which then stands at pc
genPairQR(k, pc) ==
    IF wsState # "OPEN"
    THEN /\ handlers' = [handlers EXCEPT ![k].pc = pc]
         /\ armedTimers' = {h \in armedTimers : Armed(h)} \ {k}
         /\ UNCHANGED <<sockVars, qrTimerOf, frameLog>>
    ELSE IF handlers[k].refs = <<>>
    THEN /\ end("timedOut", wsState)
         /\ queries' = QueriesAfterEnd
         /\ handlers' = [handlers EXCEPT ![k].pc = pc]
         /\ armedTimers' = {h \in armedTimers : Armed(h)} \ {k}
         /\ UNCHANGED <<epoch, qrTimerOf, frameLog>>
    ELSE LET s == ShiftRef(handlers[k].refs)
         IN /\ frameLog' = Append(frameLog, Entry(k, "qr", s.ref, handlers[k].qrMs))
            /\ qrTimer' = TRUE
            /\ qrTimerOf' = k
            /\ armedTimers' = {h \in armedTimers : Armed(h)} \cup {k}
            /\ handlers' = [handlers EXCEPT ![k].pc = pc, ![k].refs = s.rest,
                                            ![k].qrMs = NextQrMs(qrTimeout)]
            /\ UNCHANGED sockButTimer

\* onMessageRecieved hands the next frame to its listeners
CanRoute ==
    /\ wsState = "OPEN"
    /\ "message" \in wsListeners
    /\ framesRouted < MaxFrames

\* a frame whose listeners do not await
RouteOther ==
    /\ CanRoute
    /\ framesRouted' = framesRouted + 1
    /\ handlers' = [handlers EXCEPT ![framesRouted + 1] =
                       [NoHandler EXCEPT !.kind = "other", !.pc = "done"]]
    /\ UNCHANGED <<sockVars, qrTimeout, armedTimers, qrTimerOf, frameLog>>

\* CB:iq,type:set,pair-device: the result iq is sent, the handler awaits it
RoutePairDevice(refs) ==
    LET k == framesRouted + 1
    IN /\ CanRoute
       /\ framesRouted' = k
       /\ frameLog' = Append(frameLog, Entry(k, "result", "none", 0))
       /\ handlers' = [handlers EXCEPT ![k] =
                          [kind |-> "pair-device", pc |-> "sendNode", given |-> refs, refs |-> refs,
                           qrMs |-> FirstQrMs(qrTimeout), preKeyCount |-> 0]]
       /\ UNCHANGED <<sockVars, qrTimeout, armedTimers, qrTimerOf>>

\* await sendNode(iq) of the pair-device handler ends
PairDeviceSent(k, ok) ==
    /\ handlers[k].kind = "pair-device"
    /\ handlers[k].pc = "sendNode"
    /\ IF ok
       THEN genPairQR(k, "done")
       ELSE /\ handlers' = [handlers EXCEPT ![k].pc = "rejected"]
            /\ UNCHANGED <<sockVars, armedTimers, qrTimerOf, frameLog>>
    /\ UNCHANGED <<qrTimeout, framesRouted>>

\* the timeout set by genPairQR of handler k fires
QrTimerFires(k) ==
    /\ Armed(k)
    /\ genPairQR(k, handlers[k].pc)
    /\ UNCHANGED <<qrTimeout, framesRouted>>

\* what the pair-success handler emits and sends when the pairing is derived
PairSuccessTrace_ReplyFirst(k) ==
    <<Entry(k, "reply", "none", 0), Entry(k, "creds.update", "me", 0),
      Entry(k, "isNewLogin", "none", 0)>>
PairSuccessTrace(k) ==
    <<Entry(k, "creds.update", "me", 0), Entry(k, "isNewLogin", "none", 0),
      Entry(k, "reply", "none", 0)>>

\* CB:iq,,pair-success: configureSuccessfulPairing, the two events, sendNode(reply)
RoutePairSuccess(derived) ==
    LET k == framesRouted + 1
    IN /\ CanRoute
       /\ framesRouted' = k
       /\ IF derived
          THEN /\ frameLog' = frameLog \o PairSuccessTrace(k)
               /\ handlers' = [handlers EXCEPT ![k] =
                                  [NoHandler EXCEPT !.kind = "pair-success",
                                                    !.pc = "sendNode"]]
               /\ UNCHANGED sockVars
          ELSE /\ end("pairingError", wsState)
               /\ queries' = QueriesAfterEnd
               /\ handlers' = [handlers EXCEPT ![k] =
                                  [NoHandler EXCEPT !.kind = "pair-success",
                                                    !.pc = "caught"]]
               /\ UNCHANGED <<epoch, frameLog>>
       /\ UNCHANGED <<qrTimeout, armedTimers, qrTimerOf>>

\* await sendNode(reply) of the pair-success handler ends
PairSuccessSent(k, ok) ==
    /\ handlers[k].kind = "pair-success"
    /\ handlers[k].pc = "sendNode"
    /\ handlers' = [handlers EXCEPT ![k].pc = IF ok THEN "done" ELSE "caught"]
    /\ IF ok
       THEN UNCHANGED sockVars
       ELSE /\ end("sendError", wsState)
            /\ queries' = QueriesAfterEnd
            /\ UNCHANGED epoch
    /\ UNCHANGED <<qrTimeout, framesRouted, armedTimers, qrTimerOf, frameLog>>

\* CB:success: the handler awaits getAvailablePreKeysOnServer
RouteSuccess ==
    /\ CanRoute
    /\ framesRouted' = framesRouted + 1
    /\ handlers' = [handlers EXCEPT ![framesRouted + 1] =
                       [NoHandler EXCEPT !.kind = "success", !.pc = "preKeyCount"]]
    /\ UNCHANGED <<sockVars, qrTimeout, armedTimers, qrTimerOf, frameLog>>

\* Defaults.MIN_PREKEY_COUNT
MIN_PREKEY_COUNT == 5
\* the counts getAvailablePreKeysOnServer can return
PreKeyCounts == {MIN_PREKEY_COUNT, MIN_PREKEY_COUNT + 1}

\* if(preKeyCount <= MIN_PREKEY_COUNT)
UploadRequired_Below(preKeyCount) == preKeyCount < MIN_PREKEY_COUNT
UploadRequired(preKeyCount) == preKeyCount <= MIN_PREKEY_COUNT

\* the answer to a query can be routed to its TAG listener
CanAnswer == wsState = "OPEN" /\ "message" \in wsListeners

\* an await of the CB:success handler ends: getAvailablePreKeysOnServer with
\* preKeyCount, uploadPreKeys, sendPassiveIq; or the query rejects
SuccessStep(k, ok, preKeyCount) ==
    /\ handlers[k].kind = "success"
    /\ Suspended(k)
    /\ ok => CanAnswer
    /\ LET pc == handlers[k].pc
           next == IF ~ok THEN "rejected"
                   ELSE IF pc = "preKeyCount"
                        THEN (IF UploadRequired(preKeyCount)
                              THEN "uploadPreKeys" ELSE "passiveIq")
                   ELSE IF pc = "uploadPreKeys" THEN "passiveIq"
                   ELSE "done"
       IN /\ pc # "preKeyCount" => preKeyCount = handlers[k].preKeyCount
          /\ handlers' = [handlers EXCEPT ![k].pc = next,
                                          ![k].preKeyCount = IF ok THEN preKeyCount ELSE 0]
          /\ frameLog' = IF pc = "uploadPreKeys" /\ next = "passiveIq"
                         THEN Append(frameLog, Entry(k, "creds.update", "preKeys", 0))
                         ELSE IF next = "done"
                         THEN Append(frameLog, Entry(k, "open", "none", preKeyCount))
                         ELSE frameLog
          /\ qrTimer' = IF next = "done" THEN FALSE ELSE qrTimer
    /\ UNCHANGED <<sockButTimer, qrTimeout, framesRouted, armedTimers, qrTimerOf>>

\* the frame that answers the query the CB:success handler awaits also ends
\* the connection: TAG:id is emitted first and resolves the query, a CB:
\* listener of the same frame (or of the next frame of the buffer) calls
\* end(), and the handler resumes when onMessageRecieved has returned.  The
\* query of a further await throws in sendNode, the socket being closed.
SuccessAnsweredAtEnd(k, preKeyCount) ==
    /\ handlers[k].kind = "success"
    /\ Suspended(k)
    /\ CanAnswer
    /\ end("streamError", wsState)
    /\ queries' = QueriesAfterEnd
    /\ LET pc == handlers[k].pc
           next == IF pc = "passiveIq" THEN "done" ELSE "rejected"
       IN /\ pc # "preKeyCount" => preKeyCount = handlers[k].preKeyCount
          /\ handlers' = [handlers EXCEPT ![k].pc = next, ![k].preKeyCount = preKeyCount]
          /\ frameLog' = IF pc = "uploadPreKeys"
                         THEN Append(frameLog, Entry(k, "creds.update", "preKeys", 0))
                         ELSE IF next = "done"
                         THEN Append(frameLog, Entry(k, "open", "none", preKeyCount))
                         ELSE frameLog
    /\ UNCHANGED <<epoch, qrTimeout, framesRouted, armedTimers, qrTimerOf>>

\* CB:ib,,dirty of type account_sync: with a lastAccountSyncTimestamp the
\* handler awaits updateAccountSyncTimestamp before it emits creds.update
RouteDirty(hasLast) ==
    LET k == framesRouted + 1
    IN /\ CanRoute
       /\ framesRouted' = k
       /\ handlers' = [handlers EXCEPT ![k] =
                          [NoHandler EXCEPT !.kind = "dirty",
                                            !.pc = IF hasLast THEN "accountSync" ELSE "done"]]
       /\ frameLog' = IF hasLast THEN frameLog
                      ELSE Append(frameLog, Entry(k, "creds.update", "accountSync", 0))
       /\ UNCHANGED <<sockVars, qrTimeout, armedTimers, qrTimerOf>>

\* await updateAccountSyncTimestamp ends
DirtyStep(k, ok) ==
    /\ handlers[k].kind = "dirty"
    /\ handlers[k].pc = "accountSync"
    /\ handlers' = [handlers EXCEPT ![k].pc = IF ok THEN "done" ELSE "rejected"]
    /\ frameLog' = IF ok THEN Append(frameLog, Entry(k, "creds.update", "accountSync", 0))
                   ELSE frameLog
    /\ UNCHANGED <<sockVars, qrTimeout, framesRouted, armedTimers, qrTimerOf>>

\* the socket opens, or closes under the handlers
FramesWsOpen == WsOpen /\ UNCHANGED frameVars
FramesWsClose == WsCloseEvent("1006") /\ UNCHANGED frameVars

NextFrames ==
    \/ FramesWsOpen /\ UNCHANGED offFrames
    \/ FramesWsClose /\ UNCHANGED offFrames
    \/ RouteOther /\ UNCHANGED offFrames
    \/ \E refs \in RefLists : RoutePairDevice(refs) /\ UNCHANGED offFrames
    \/ \E k \in FrameSlots, ok \in BOOLEAN : PairDeviceSent(k, ok) /\ UNCHANGED offFrames
    \/ \E k \in FrameSlots : QrTimerFires(k) /\ UNCHANGED offFrames
    \/ \E d \in BOOLEAN : RoutePairSuccess(d) /\ UNCHANGED offFrames
    \/ \E k \in FrameSlots, ok \in BOOLEAN : PairSuccessSent(k, ok) /\ UNCHANGED offFrames
    \/ RouteSuccess /\ UNCHANGED offFrames
    \/ \E k \in FrameSlots, ok \in BOOLEAN, c \in PreKeyCounts :
          SuccessStep(k, ok, c) /\ UNCHANGED offFrames
    \/ \E k \in FrameSlots, c \in PreKeyCounts :
          SuccessAnsweredAtEnd(k, c) /\ UNCHANGED offFrames
    \/ \E h \in BOOLEAN : RouteDirty(h) /\ UNCHANGED offFrames
    \/ \E k \in FrameSlots, ok \in BOOLEAN : DirtyStep(k, ok) /\ UNCHANGED offFrames

(***************************************************************************)
(* Keep-alive                                                              *)
(*                                                                         *)
(* Time passes in steps of Delays; a timer that is due fires before time   *)
(* passes on.  Of Date.now() and lastDateRecv their difference is kept.    *)
(***************************************************************************)
\* config.keepAliveIntervalMs
keepAliveIntervalMs == 10000
\* the steps in which time passes, in ms
Delays == {5000}
\* lastDateRecv is undefined
NoRecv == -1
NoTick == [pings |-> 0, ended |-> FALSE]
Min(a, b) == IF a < b THEN a ELSE b

InitKeepAlive ==
    /\ handshake = "none"
    /\ sinceRecv = NoRecv
    /\ untilTick = 0
    /\ lastTick = NoTick

\* ws 'open': validateConnection sends the client hello and awaits the next frame
KaWsOpen ==
    /\ wsState = "CONNECTING"
    /\ "open" \in wsListeners
    /\ wsState' = "OPEN"
    /\ handshake' = "hello"
    /\ UNCHANGED <<wsListeners, closed, keepAliveReq, qrTimer, evListening, evLog, epoch,
                   queries, endCalls, firstEndError, sinceRecv, untilTick, lastTick>>

\* the server hello arrives through onMessageRecieved; validateConnection
\* sends the client finish and awaits sendRawMessage
KaServerHello ==
    /\ handshake = "hello"
    /\ wsState = "OPEN"
    /\ "message" \in wsListeners
    /\ sinceRecv' = 0
    /\ handshake' = "finish"
    /\ UNCHANGED <<sockVars, untilTick, lastTick>>

\* await sendRawMessage(clientFinish) ends: startKeepAliveRequest(), or the
\* catch of the 'open' listener calls end(err)
KaFinishSent(ok) ==
    /\ handshake = "finish"
    /\ IF ok
       THEN /\ handshake' = "done"
            /\ keepAliveReq' = TRUE
            /\ untilTick' = keepAliveIntervalMs
            /\ UNCHANGED <<wsState, wsListeners, closed, qrTimer, evListening, evLog,
                           epoch, queries, endCalls, firstEndError>>
       ELSE /\ handshake' = "failed"
            /\ end("sendError", wsState)
            /\ queries' = QueriesAfterEnd
            /\ UNCHANGED <<epoch, untilTick>>
    /\ UNCHANGED <<sinceRecv, lastTick>>

\* onMessageRecieved: lastDateRecv = new Date()
KaFrame ==
    /\ handshake = "done"
    /\ wsState = "OPEN"
    /\ "message" \in wsListeners
    /\ sinceRecv' = 0
    /\ UNCHANGED <<sockVars, handshake, untilTick, lastTick>>

\* d ms pass
KaAdvance(d) ==
    /\ keepAliveReq => d <= untilTick
    /\ untilTick' = IF keepAliveReq THEN untilTick - d ELSE untilTick
    /\ sinceRecv' = IF sinceRecv = NoRecv THEN NoRecv ELSE Min(sinceRecv + d, SilenceCap)
    /\ UNCHANGED <<sockVars, handshake, lastTick>>

\* if(diff > keepAliveIntervalMs + 5000)
Lost_AtGrace(diff) == diff >= keepAliveIntervalMs + KEEP_ALIVE_GRACE_MS
Lost_TwoIntervals(diff) == diff > 2 * keepAliveIntervalMs + KEEP_ALIVE_GRACE_MS
Lost(diff) == diff > keepAliveIntervalMs + KEEP_ALIVE_GRACE_MS

\* the callback of setInterval in startKeepAliveRequest
KaTick ==
    LET diff == IF sinceRecv = NoRecv THEN 0 ELSE sinceRecv
    IN /\ keepAliveReq
       /\ untilTick = 0
       /\ untilTick' = keepAliveIntervalMs
       /\ sinceRecv' = diff
       /\ IF Lost(diff)
          THEN /\ end("connectionLost", wsState)
               /\ queries' = QueriesAfterEnd
               /\ lastTick' = [pings |-> 0, ended |-> TRUE]
               /\ UNCHANGED epoch
          ELSE /\ lastTick' = [pings |-> IF wsState = "OPEN" THEN 1 ELSE 0,
                               ended |-> FALSE]
               /\ UNCHANGED sockVars
       /\ UNCHANGED handshake

\* the peer starts the closing handshake: ws.readyState is CLOSING until ws
\* emits 'close'
KaWsClosing ==
    /\ wsState = "OPEN"
    /\ wsState' = "CLOSING"
    /\ UNCHANGED <<wsListeners, closed, keepAliveReq, qrTimer, evListening, evLog, epoch,
                   queries, endCalls, firstEndError, kaVars>>

\* ws emits 'close'
KaWsClose == WsCloseEvent("1006") /\ UNCHANGED kaVars

Tick == KaTick /\ UNCHANGED offKeepAlive
Advance == \E d \in Delays : KaAdvance(d) /\ UNCHANGED offKeepAlive
Handshaken == \E ok \in BOOLEAN : KaFinishSent(ok) /\ UNCHANGED offKeepAlive

NextKeepAlive ==
    \/ KaWsOpen /\ UNCHANGED offKeepAlive
    \/ KaServerHello /\ UNCHANGED offKeepAlive
    \/ Handshaken
    \/ KaFrame /\ UNCHANGED offKeepAlive
    \/ Advance
    \/ Tick
    \/ KaWsClosing /\ UNCHANGED offKeepAlive
    \/ KaWsClose /\ UNCHANGED offKeepAlive

(***************************************************************************)
(* Event buffer and message upsert                                         *)
(*                                                                         *)
(* makeEventBuffer and processMessage are not among the sources; they are  *)
(* modelled from the specification (4.3, 4.9).  upsertMessage is called    *)
(* under processingMutex, so one call runs at a time.                      *)
(***************************************************************************)
UpsertIds == 1..MaxUpserts
NoUpsert == 0
MessageKinds == {"history", "keyShare", "plain"}
IdleUpsert == [id |-> NoUpsert, kind |-> "none", pc |-> "idle", hadKey |-> FALSE,
               sync |-> "none", pm |-> "none"]
\* the creds a logged-in account can hold: the counter is only raised after a
\* sync, and a sync only runs with the key
StoredCreds == {<<FALSE, 0>>, <<TRUE, 0>>, <<TRUE, 1>>}

InitBuffer ==
    /\ loggedIn \in BOOLEAN
    /\ ticked = FALSE
    /\ offlineSeen = FALSE
    /\ didStartBuffer = FALSE
    /\ isBuffering = FALSE
    /\ bufQueue = <<>>
    /\ delivered = <<>>
    /\ \E c \in StoredCreds : myAppStateKeyId = c[1] /\ accountSyncCounter = c[2]
    /\ pendingAppStateSync = FALSE
    /\ needToFlushWithAppStateSync = FALSE
    /\ upsert = IdleUpsert
    /\ upserts = 0
    /\ resyncRuns = 0
    /\ keyArrived = FALSE

\* an event: its name, the upsertMessage call that emitted it, and of its
\* payload what the listeners read
Ev(name, call) == [name |-> name, call |-> call, key |-> FALSE, counter |-> 0, rpn |-> FALSE]

\* the event buffer with what its listeners write
Bus == [buffering |-> isBuffering, queue |-> bufQueue, log |-> delivered,
        key |-> myAppStateKeyId, counter |-> accountSyncCounter,
        need |-> needToFlushWithAppStateSync]

SetBus(b) ==
    /\ isBuffering' = b.buffering
    /\ bufQueue' = b.queue
    /\ delivered' = b.log
    /\ myAppStateKeyId' = b.key
    /\ accountSyncCounter' = b.counter
    /\ needToFlushWithAppStateSync' = b.need

\* ev.on('creds.update'): Object.assign(creds, update);
\* ev.on('connection.update'): buffer until the app state key is there
Listeners(b, e) ==
    LET c == IF e.name = "creds.update"
             THEN [b EXCEPT !.key = b.key \/ e.key,
                            !.counter = IF e.counter # 0 THEN e.counter ELSE b.counter]
             ELSE b
    IN IF e.name = "connection.update" /\ e.rpn /\ ~c.key
       THEN [c EXCEPT !.buffering = TRUE, !.need = TRUE]
       ELSE c

\* the subscribers see e
Deliver(b, e) == Listeners([b EXCEPT !.log = Append(b.log, e)], e)

RECURSIVE DeliverAll(_, _)
DeliverAll(b, q) == IF q = <<>> THEN b ELSE DeliverAll(Deliver(b, Head(q)), Tail(q))

\* ev.buffer()
buffer(b) == [b EXCEPT !.buffering = TRUE]

\* ev.flush(): drains in insertion order
flush(b) ==
    IF ~b.buffering THEN b
    ELSE DeliverAll([b EXCEPT !.buffering = FALSE, !.queue = <<>>], b.queue)

\* ev.emit(event, payload)
emit(b, e) == IF b.buffering THEN [b EXCEPT !.queue = Append(b.queue, e)] ELSE Deliver(b, e)

\* the end of a function wrapped by ev.createBufferedFunction: what was
\* buffered until it completed is flushed
Unwrap(b) == flush(b)

\* process.nextTick(() => { if(creds.me?.id) { ev.buffer(); didStartBuffer = true } ... })
BufNextTick ==
    /\ ~ticked
    /\ ticked' = TRUE
    /\ didStartBuffer' = loggedIn
    /\ SetBus(emit(IF loggedIn THEN buffer(Bus) ELSE Bus, Ev("connection.update", NoUpsert)))
    /\ UNCHANGED <<loggedIn, offlineSeen, pendingAppStateSync, upsert, upserts, resyncRuns,
                   keyArrived>>

\* ws.on('CB:ib,,offline')
OfflineIb ==
    /\ ticked
    /\ loggedIn
    /\ ~offlineSeen
    /\ offlineSeen' = TRUE
    /\ SetBus(emit(IF didStartBuffer THEN flush(Bus) ELSE Bus,
                   [Ev("connection.update", NoUpsert) EXCEPT !.rpn = TRUE]))
    /\ UNCHANGED <<loggedIn, ticked, didStartBuffer, pendingAppStateSync, upsert, upserts,
                   resyncRuns, keyArrived>>

\* if(historyMsg && !authState.creds.myAppStateKeyId)
Deferred(hist, key) == hist /\ ~key

\* if(msg.message?.protocolMessage?.appStateSyncKeyShare && pendingAppStateSync)
Retroactive_Never(keyShare, pending) == FALSE
Retroactive(keyShare, pending) == keyShare /\ pending

\* doAppStateSync: if(!authState.creds.accountSyncCounter)
SyncNeeded_Always(counter) == TRUE
SyncNeeded(counter) == counter = 0

\* upsertMessage(msg, type) up to await Promise.all([...])
UpsertCall(kind) ==
    LET id == upserts + 1
        hist == kind = "history"
        b == emit(buffer(Bus), Ev("messages.upsert", id))
        now == hist /\ myAppStateKeyId
    IN /\ ticked
       /\ loggedIn
       /\ upsert.pc = "idle"
       /\ upserts < MaxUpserts
       /\ upserts' = id
       /\ SetBus(b)
       /\ pendingAppStateSync' = IF now THEN FALSE
                                 ELSE IF Deferred(hist, myAppStateKeyId) THEN TRUE
                                 ELSE pendingAppStateSync
       /\ upsert' = [id |-> id, kind |-> kind, pc |-> "all", hadKey |-> myAppStateKeyId,
                     sync |-> IF now /\ SyncNeeded(accountSyncCounter)
                              THEN "resync" ELSE "done",
                     pm |-> "run"]
       /\ UNCHANGED <<loggedIn, ticked, offlineSeen, didStartBuffer, resyncRuns, keyArrived>>

\* await resyncAppState(ALL_WA_PATCH_NAMES, true) returns and doAppStateSync
\* goes on; from the call after Promise.all, upsertMessage ends with it
ResyncDone ==
    LET b1 == Unwrap(emit(Bus, Ev("chats.update", upsert.id)))
        b2 == emit(b1, [Ev("creds.update", upsert.id) EXCEPT !.counter = b1.counter + 1])
        b3 == IF b2.need THEN flush(b2) ELSE b2
    IN /\ upsert.sync = "resync"
       /\ resyncRuns' = resyncRuns + 1
       /\ IF upsert.pc = "late"
          THEN /\ pendingAppStateSync' = FALSE
               /\ SetBus(Unwrap(b3))
               /\ upsert' = IdleUpsert
          ELSE /\ SetBus(b3)
               /\ upsert' = [upsert EXCEPT !.sync = "done"]
               /\ UNCHANGED pendingAppStateSync
       /\ UNCHANGED <<loggedIn, ticked, offlineSeen, didStartBuffer, upserts, keyArrived>>

\* processMessage(msg, ...) returns
ProcessMessageDone ==
    /\ upsert.pm = "run"
    /\ upsert' = [upsert EXCEPT !.pm = "done"]
    /\ keyArrived' = (keyArrived \/ upsert.kind = "keyShare")
    /\ SetBus(IF upsert.kind = "keyShare"
              THEN emit(Bus, [Ev("creds.update", upsert.id) EXCEPT !.key = TRUE])
              ELSE IF upsert.kind = "history"
              THEN emit(Bus, Ev("messaging-history.set", upsert.id))
              ELSE Bus)
    /\ UNCHANGED <<loggedIn, ticked, offlineSeen, didStartBuffer, pendingAppStateSync,
                   upserts, resyncRuns>>

\* upsertMessage after await Promise.all([...])
AfterAll ==
    /\ upsert.pc = "all"
    /\ upsert.sync = "done"
    /\ upsert.pm = "done"
    /\ IF Retroactive(upsert.kind = "keyShare", pendingAppStateSync)
       THEN IF SyncNeeded(accountSyncCounter)
            THEN /\ upsert' = [upsert EXCEPT !.pc = "late", !.sync = "resync"]
                 /\ SetBus(buffer(Bus))
                 /\ UNCHANGED pendingAppStateSync
            ELSE /\ pendingAppStateSync' = FALSE
                 /\ SetBus(Unwrap(Bus))
                 /\ upsert' = IdleUpsert
       ELSE /\ SetBus(Unwrap(Bus))
            /\ upsert' = IdleUpsert
            /\ UNCHANGED pendingAppStateSync
    /\ UNCHANGED <<loggedIn, ticked, offlineSeen, didStartBuffer, upserts, resyncRuns,
                   keyArrived>>

Upserted == \E kind \in MessageKinds : UpsertCall(kind) /\ UNCHANGED offBuffer
Resynced == ResyncDone /\ UNCHANGED offBuffer
Processed == ProcessMessageDone /\ UNCHANGED offBuffer
Settled == AfterAll /\ UNCHANGED offBuffer
Started == BufNextTick /\ UNCHANGED offBuffer

NextBuffer ==
    \/ Started
    \/ OfflineIb /\ UNCHANGED offBuffer
    \/ Upserted
    \/ Resynced
    \/ Processed
    \/ Settled

(***************************************************************************)
(* Logout                                                                  *)
(***************************************************************************)
LogoutIds == 1..MaxLogouts
IdleLogout == [pc |-> "idle", handed |-> FALSE, ended |-> FALSE]

InitLogout == logoutCalls = [c \in LogoutIds |-> IdleLogout]

\* sendRawMessage: if(ws.readyState !== ws.OPEN) throw
CanSend(ready) == ready = "OPEN"

\* logout(msg) up to its await: with creds.me the remove-companion-device iq
\* is built and sendNode is called
LogoutCall(c) ==
    /\ logoutCalls[c].pc = "idle"
    /\ \A b \in LogoutIds : b < c => logoutCalls[b].pc # "idle"
    /\ IF loggedIn
       THEN /\ epoch' = epoch + 1
            /\ logoutCalls' = [logoutCalls EXCEPT ![c].pc =
                                  IF CanSend(wsState) THEN "sendNode" ELSE "rejected"]
            /\ UNCHANGED <<wsState, wsListeners, closed, keepAliveReq, qrTimer, evListening,
                           evLog, queries, endCalls, firstEndError>>
       ELSE /\ end("loggedOut", wsState)
            /\ queries' = QueriesAfterEnd
            /\ logoutCalls' = [logoutCalls EXCEPT ![c] =
                                  [pc |-> "done", handed |-> FALSE, ended |-> TRUE]]
            /\ UNCHANGED epoch

\* await sendNode(...) of logout ends: ws.send called back, or it failed
LogoutSent(c, ok) ==
    /\ logoutCalls[c].pc = "sendNode"
    /\ IF ok
       THEN /\ end("loggedOut", wsState)
            /\ queries' = QueriesAfterEnd
            /\ logoutCalls' = [logoutCalls EXCEPT ![c] =
                                  [pc |-> "done", handed |-> TRUE, ended |-> TRUE]]
            /\ UNCHANGED epoch
       ELSE /\ logoutCalls' = [logoutCalls EXCEPT ![c].pc = "rejected"]
            /\ UNCHANGED sockVars

NextLogout ==
    \/ WsOpen /\ UNCHANGED <<logoutVars, offLogout>>
    \/ WsCloseEvent("1006") /\ UNCHANGED <<logoutVars, offLogout>>
    \/ \E q \in QuerySlots : Query(q, NoId) /\ UNCHANGED <<logoutVars, offLogout>>
    \/ \E c \in LogoutIds : LogoutCall(c) /\ UNCHANGED offLogout
    \/ \E c \in LogoutIds, ok \in BOOLEAN : LogoutSent(c, ok) /\ UNCHANGED offLogout

(***************************************************************************)
(* Pre-key generation and upload                                           *)
(***************************************************************************)
Max(a, b) == IF a >= b THEN a ELSE b

Counts == 0..MaxCount
NoUpdate == [nextPreKeyId |-> 0, firstUnuploadedPreKeyId |-> 0]
IdleUpload == [pc |-> "idle", count |-> 0, from |-> NoUpdate, update |-> NoUpdate,
               lastPreKeyId |-> 0, newPreKeys |-> {}, preKeys |-> {}, min |-> 0,
               result |-> "none", emittedBefore |-> 0, waited |-> FALSE, during |-> {}]

\* creds as initAuthCreds and earlier uploads leave them; the store holds the
\* keys generated so far
StartCreds ==
    {c \in [nextPreKeyId : 1..MaxStartId, firstUnuploadedPreKeyId : 1..MaxStartId] :
        c.firstUnuploadedPreKeyId <= c.nextPreKeyId}

InitPreKeys ==
    /\ pkCreds = [nextPreKeyId |-> 1, firstUnuploadedPreKeyId |-> 1]
    /\ pkStore = {}
    /\ upload = IdleUpload
    /\ pkEmitted = 0
    /\ uploads = 0
    /\ pkWaiting = <<>>

InitPreKeysDrawn ==
    /\ pkCreds \in StartCreds
    /\ pkStore = 1..(pkCreds.nextPreKeyId - 1)
    /\ upload = IdleUpload
    /\ pkEmitted = 0
    /\ uploads = 0
    /\ pkWaiting = <<>>

LastPreKeyId_OneMore(creds, remaining) == creds.nextPreKeyId + remaining
LastPreKeyId(creds, remaining) == creds.nextPreKeyId + remaining - 1

generateOrGetPreKeys(creds, range) ==
    LET avaliable == creds.nextPreKeyId - creds.firstUnuploadedPreKeyId
        remaining == range - avaliable
        lastPreKeyId == LastPreKeyId(creds, remaining)
    IN  [newPreKeys |-> IF remaining > 0 THEN creds.nextPreKeyId..lastPreKeyId ELSE {},
         lastPreKeyId |-> lastPreKeyId,
         preKeysRange |-> <<creds.firstUnuploadedPreKeyId, range>>]

\* getPreKeys: ids min .. limit - 1 as the store has them
getPreKeys(store, min, limit) == {id \in min..(limit - 1) : id \in store}

NextIdOf_NoMax(creds, lastPreKeyId) == lastPreKeyId + 1
NextIdOf(creds, lastPreKeyId) == Max(lastPreKeyId + 1, creds.nextPreKeyId)

UpdateOf(creds, lastPreKeyId) ==
    [nextPreKeyId |-> NextIdOf(creds, lastPreKeyId),
     firstUnuploadedPreKeyId |-> Max(creds.firstUnuploadedPreKeyId, lastPreKeyId + 1)]

\* keys.transaction: one transaction at a time
TransactionFree == upload.pc = "idle"

\* the transaction's work up to await query(node): getNextPreKeysNode, then
\* the node with the selected keys goes to the server
EnterTransaction(count, waited, during) ==
    LET g == generateOrGetPreKeys(pkCreds, count)
        store == pkStore \cup g.newPreKeys
        preKeys == getPreKeys(store, g.preKeysRange[1],
                              g.preKeysRange[1] + g.preKeysRange[2])
    IN  /\ pkStore' = store
        /\ upload' = [pc |-> "query", count |-> count, from |-> pkCreds,
                      update |-> UpdateOf(pkCreds, g.lastPreKeyId),
                      lastPreKeyId |-> g.lastPreKeyId,
                      newPreKeys |-> g.newPreKeys,
                      preKeys |-> preKeys,
                      min |-> g.preKeysRange[1],
                      result |-> "none", emittedBefore |-> pkEmitted,
                      waited |-> waited, during |-> during]

\* uploadPreKeys(count): the call enters the transaction, or waits for the
\* one that is open (during: the keys of the upload awaiting its answer)
UploadCall(count) ==
    /\ uploads < MaxUploads
    /\ uploads' = uploads + 1
    /\ IF TransactionFree /\ pkWaiting = <<>>
       THEN /\ EnterTransaction(count, FALSE, {})
            /\ UNCHANGED pkWaiting
       ELSE /\ pkWaiting' = Append(pkWaiting,
                                   [count |-> count,
                                    waited |-> ~TransactionFree,
                                    during |-> IF TransactionFree THEN {}
                                                                  ELSE upload.preKeys])
            /\ UNCHANGED <<pkStore, upload>>
    /\ UNCHANGED <<pkCreds, pkEmitted>>

\* the transaction is over: the call that waited longest enters
UploadResumes ==
    /\ TransactionFree
    /\ pkWaiting # <<>>
    /\ EnterTransaction(Head(pkWaiting).count, Head(pkWaiting).waited,
                        Head(pkWaiting).during)
    /\ pkWaiting' = Tail(pkWaiting)
    /\ UNCHANGED <<pkCreds, pkEmitted, uploads>>

EmitOnFailure_Always(ok) == TRUE
EmitOnFailure(ok) == ok

\* await query(node) ends; ev.emit('creds.update', update) runs the listener
\* that assigns the update to creds
UploadAnswered(ok) ==
    /\ upload.pc = "query"
    /\ upload' = [upload EXCEPT !.pc = "idle",
                                !.result = IF ok THEN "accepted" ELSE "failed"]
    /\ IF EmitOnFailure(ok)
       THEN /\ pkEmitted' = pkEmitted + 1
            /\ pkCreds' = upload.update
       ELSE UNCHANGED <<pkEmitted, pkCreds>>
    /\ UNCHANGED <<pkStore, uploads, pkWaiting>>

NextPreKeys ==
    \/ \E count \in Counts : UploadCall(count) /\ UNCHANGED offPreKeys
    \/ \E ok \in BOOLEAN : UploadAnswered(ok) /\ UNCHANGED offPreKeys
    \/ UploadResumes /\ UNCHANGED offPreKeys

(***************************************************************************)
(* Sessions and devices: getUSyncDevices, assertSessions,                  *)
(* createParticipantNodes                                                  *)
(***************************************************************************)
JidLists ==
    { <<>>,
      <<jidEncode("a", 0)>>,
      <<jidEncode("a", 0), jidEncode("a", 2)>>,
      <<jidEncode(MyUser, 2), jidEncode("a", 0), jidEncode("a", 2)>> }
EncTypes == {"pkmsg", "msg"}

IdleOp == [op |-> "none", pc |-> "idle", jids |-> <<>>, flag |-> FALSE,
           users |-> <<>>, devs |-> <<>>, iqs |-> <<>>, answer |-> "none", returned |-> "none",
           injected |-> {}, storeBefore |-> {}, encs |-> {}, identity |-> FALSE]

InitSessions ==
    /\ sessionStore = {}
    /\ sessOp = IdleOp
    /\ ops = 0

\* signalRepository.jidToSignalProtocolAddress(jid)
jidToSignalProtocolAddress(jid) == <<jid.user, jid.device>>

OpStarts ==
    /\ sessOp.pc = "idle"
    /\ ops < MaxOps
    /\ ops' = ops + 1

\* ---- getUSyncDevices ----
\* getUSyncDevices(jids, useCache, ignoreZeroDevices) up to await query(iq):
\* the iq is built and sent with the users the loop collected
USyncCall(jids, useCache) ==
    /\ OpStarts
    /\ LET scan == CacheScan(Dedupe(jids), useCache)
       IN sessOp' = [IdleOp EXCEPT !.op = "usync", !.pc = "query", !.jids = jids,
                                   !.flag = useCache, !.users = scan.users,
                                   !.devs = scan.devs, !.iqs = <<scan.users>>]
    /\ UNCHANGED <<relayVars, sessionStore>>

\* the answer of the USync query: extractDeviceJids, the cache is set
USyncAnswered(ok, ignoreZeroDevices) ==
    /\ sessOp.op = "usync"
    /\ sessOp.pc = "query"
    /\ IF ok
       THEN LET extracted == ExtractAll(Dedupe(sessOp.users), ignoreZeroDevices)
                deviceMap(u) == SelectSeq(extracted, LAMBDA d : d.user = u)
            IN /\ sessOp' = [sessOp EXCEPT !.pc = "idle", !.returned = "devices",
                                           !.answer = "result",
                                           !.devs = sessOp.devs \o extracted]
               /\ userDevicesCache' =
                      [u \in Users |-> IF deviceMap(u) # <<>>
                                       THEN [present |-> TRUE, devices |-> deviceMap(u)]
                                       ELSE userDevicesCache[u]]
       ELSE /\ sessOp' = [sessOp EXCEPT !.pc = "idle", !.returned = "threw",
                                        !.answer = "error"]
            /\ UNCHANGED userDevicesCache
    /\ UNCHANGED <<directory, senderKeyMemory, lastStanza, sessionStore, ops>>

\* ---- assertSessions ----
JidsRequiringFetch_All(jids, force, store) == jids
JidsRequiringFetch(jids, force, store) ==
    IF force THEN jids
    ELSE SelectSeq(jids, LAMBDA jid : jidToSignalProtocolAddress(jid) \notin store)

\* assertSessions(jids, force) up to await query(...), or to its return when
\* nothing is to fetch
AssertCall(jids, force) ==
    /\ OpStarts
    /\ LET fetch == JidsRequiringFetch(jids, force, sessionStore)
       IN sessOp' = [IdleOp EXCEPT !.op = "assert", !.jids = jids, !.flag = force,
                                   !.storeBefore = sessionStore,
                                   !.pc = IF fetch # <<>> THEN "query" ELSE "idle",
                                   !.iqs = IF fetch # <<>> THEN <<fetch>> ELSE <<>>,
                                   !.returned = IF fetch # <<>> THEN "none" ELSE "false"]
    /\ UNCHANGED <<relayVars, sessionStore>>

\* the user nodes the server may answer a key fetch with
Answers(asked) == {asked, SubSeq(asked, 1, Len(asked) - 1)}

\* the answer of the key fetch: parseAndInjectE2ESessions, then true
AssertAnswered(ok, answer) ==
    /\ sessOp.op = "assert"
    /\ sessOp.pc = "query"
    /\ answer \in Answers(sessOp.iqs[1])
    /\ IF ok
       THEN LET got == {jidToSignalProtocolAddress(answer[i]) : i \in 1..Len(answer)}
            IN /\ sessionStore' = sessionStore \cup got
               /\ sessOp' = [sessOp EXCEPT !.pc = "idle", !.returned = "true",
                                           !.answer = "result", !.injected = got]
       ELSE /\ sessOp' = [sessOp EXCEPT !.pc = "idle", !.returned = "threw",
                                        !.answer = "error"]
            /\ UNCHANGED sessionStore
    /\ UNCHANGED <<relayVars, ops>>

\* ---- createParticipantNodes and the stanza of relayMessage ----
\* createParticipantNodes(jids, message): one node for each jid with the type
\* encryptMessage returned
createParticipantNodes(jids, types) ==
    [nodes |-> {<<jids[i], types[jids[i]]>> : i \in 1..Len(jids)},
     shouldIncludeDeviceIdentity |-> \E i \in 1..Len(jids) : types[jids[i]] = "pkmsg"]

\* shouldIncludeDeviceIdentity || s1 || s2
IncludeIdentity_WithoutOthers(s0, s1, s2) == s0 \/ s1
IncludeIdentity(s0, s1, s2) == s0 \/ s1 \/ s2

\* relayMessage from the encryption for the devices to the stanza: jids are the
\* senderKeyJids of a group, allJids of a chat with a user
RelayNodes(isGroup, jids, types) ==
    /\ OpStarts
    /\ IF isGroup
       THEN LET result == createParticipantNodes(jids, types)
            IN sessOp' = [IdleOp EXCEPT
                   !.op = "relay", !.jids = jids, !.flag = isGroup,
                   !.encs = IF jids # <<>> THEN result.nodes ELSE {},
                   !.identity = IF jids # <<>>
                                THEN IncludeIdentity(FALSE, FALSE,
                                                     result.shouldIncludeDeviceIdentity)
                                ELSE FALSE]
       ELSE LET me == createParticipantNodes(
                          SelectSeq(jids, LAMBDA j : j.user = MyUser), types)
                other == createParticipantNodes(
                          SelectSeq(jids, LAMBDA j : j.user # MyUser), types)
            IN sessOp' = [IdleOp EXCEPT
                   !.op = "relay", !.jids = jids, !.flag = isGroup,
                   !.encs = me.nodes \cup other.nodes,
                   !.identity = IncludeIdentity(FALSE, me.shouldIncludeDeviceIdentity,
                                                other.shouldIncludeDeviceIdentity)]
    /\ UNCHANGED <<relayVars, sessionStore>>

\* an entry of userDevicesCache outlives its TTL
SessCacheExpire(u) ==
    /\ CacheExpire(u)
    /\ UNCHANGED sessVars

NextSessions ==
    \/ \E jids \in JidLists, uc \in BOOLEAN : USyncCall(jids, uc) /\ UNCHANGED offSessions
    \/ \E ok \in BOOLEAN, iz \in BOOLEAN : USyncAnswered(ok, iz) /\ UNCHANGED offSessions
    \/ \E jids \in JidLists, force \in BOOLEAN : AssertCall(jids, force) /\ UNCHANGED offSessions
    \/ \E ok \in BOOLEAN, ans \in JidLists : AssertAnswered(ok, ans) /\ UNCHANGED offSessions
    \/ \E g \in BOOLEAN, jids \in JidLists : \E types \in [SeqRange(jids) -> EncTypes] :
          RelayNodes(g, jids, types) /\ UNCHANGED offSessions
    \/ \E u \in Users : SessCacheExpire(u) /\ UNCHANGED offSessions

(***************************************************************************)
(* appPatch                                                                *)
(*                                                                         *)
(* The resync inside appPatch is the resyncAppState followed above;        *)
(* syncVersion is the store as the open transaction shows it.              *)
(***************************************************************************)
IdlePatch == [pc |-> "idle", name |-> "none", emitOwnEvents |-> FALSE,
              atCall |-> NoVersion, afterResync |-> NoVersion, initial |-> NoVersion,
              state |-> NoVersion, sentVersion |-> NoVersion, resynced |-> FALSE,
              result |-> "none", ownEvents |-> FALSE]

InitPatch == patch = IdlePatch

\* encodeSyncdPatch: the state it returns is one version after the initial
EncodedVersion(initial) == initial + 1

\* version: (state.version - 1).toString()
SentVersion_OfState(state) == state
SentVersion(state) == state - 1

\* the store when keys.transaction is left by an exception: what was set
\* inside the transaction is not committed
Uncommitted(versions, name, atCall) == [versions EXCEPT ![name] = atCall]

\* appPatch(patchCreate) up to the query of resyncAppState([name], false)
PatchCall(name, emitOwnEvents) ==
    /\ patch.pc = "idle"
    /\ IF ~myAppStateKeyId
       THEN /\ patch' = [IdlePatch EXCEPT !.name = name, !.result = "noKey"]
            /\ UNCHANGED syncVars
       ELSE /\ resyncAppState({name})
            /\ patch' = [IdlePatch EXCEPT !.pc = "resync", !.name = name,
                                          !.emitOwnEvents = emitOwnEvents,
                                          !.atCall = syncVersion[name]]

\* the resync of appPatch goes on
PatchResync ==
    /\ patch.pc = "resync"
    /\ \/ SendSyncQuery
       \/ \E present \in SUBSET collectionsToHandle : QueryAnswered(present)
       \/ \E o \in Outcomes : HandleDecoded(patch.name, o)
    /\ UNCHANGED patch

\* the resync of appPatch rejects: appPatch rejects with it
PatchResyncThrows ==
    /\ patch.pc = "resync"
    /\ QueryThrows
    /\ patch' = [patch EXCEPT !.pc = "idle", !.result = "resyncThrew"]

\* the resync returns; the state is read and the patch encoded and sent
PatchEncoded ==
    /\ patch.pc = "resync"
    /\ FinishResync
    /\ LET initial == states(patch.name)
           state == EncodedVersion(initial)
       IN patch' = [patch EXCEPT !.pc = "query", !.resynced = TRUE,
                                 !.afterResync = syncVersion[patch.name],
                                 !.initial = initial, !.state = state,
                                 !.sentVersion = SentVersion(state)]

\* await query(node) ends: keys.set and, with emitOwnEvents, the mutations
\* of the patch, or the exception leaves appPatch
PatchAnswered(ok) ==
    /\ patch.pc = "query"
    /\ IF ok
       THEN /\ syncVersion' = [syncVersion EXCEPT ![patch.name] = patch.state]
            /\ patch' = [patch EXCEPT !.pc = "idle", !.result = "sent",
                                      !.ownEvents = patch.emitOwnEvents]
       ELSE /\ syncVersion' = Uncommitted(syncVersion, patch.name, patch.atCall)
            /\ patch' = [patch EXCEPT !.pc = "idle", !.result = "queryThrew"]
    /\ UNCHANGED <<rsPhase, collectionsToHandle, attemptsMap, globalMutationMap, decoded,
                   mutationEvents, rsCalls, requests, lastFailure, callQuiet,
                   versionAtCall>>

NextPatch ==
    \/ \E n \in Names, own \in BOOLEAN : PatchCall(n, own) /\ UNCHANGED offPatch
    \/ PatchResync /\ UNCHANGED offPatch
    \/ PatchResyncThrows /\ UNCHANGED offPatch
    \/ PatchEncoded /\ UNCHANGED offPatch
    \/ \E ok \in BOOLEAN : PatchAnswered(ok) /\ UNCHANGED offPatch

(***************************************************************************)
(* The router of inbound frames: onMessageRecieved                         *)
(*                                                                         *)
(* An event name is a tuple: its first element is the shape of the string  *)
(* the code builds, the others are the parts put into it.                  *)
(***************************************************************************)
\* the attrs of a frame, in the order of Object.keys
AttrLists ==
    { <<>>,
      <<<<"id", "1">>>>,
      <<<<"id", "1">>, <<"type", "result">>>> }
\* frame.content: no array, an empty array, an array with a first child
Contents == {"noArray", "emptyArray", "pair-device"}
\* the decoded frames: binary nodes and, during the handshake, bytes
Frames ==
    [binary : {TRUE}, tag : {"iq"}, attrs : AttrLists, content : Contents]
        \cup {[binary |-> FALSE, tag |-> "iq", attrs |-> <<>>, content |-> "noArray"]}
LogLevels == {"trace", "debug", "info"}

\* frame.attrs.id
MsgIdOf(frame) ==
    IF \E i \in 1..Len(frame.attrs) : frame.attrs[i][1] = "id"
    THEN (CHOOSE a \in SeqRange(frame.attrs) : a[1] = "id")[2]
    ELSE "undefined"

\* Array.isArray(frame.content) ? frame.content[0]?.tag : ''
FirstChildTag(frame) ==
    CASE frame.content = "noArray" -> ""
      [] frame.content = "emptyArray" -> "undefined"
      [] OTHER -> frame.content

TagEvent(id) == <<"TAG:id", id>>
\* the three emits of the forEach over the keys of attrs
KeyPatterns_ShortFirst(l0, key, value, l2) ==
    << <<"CB:l0,key", l0, key>>,
       <<"CB:l0,key:value", l0, key, value>>,
       <<"CB:l0,key:value,l2", l0, key, value, l2>> >>
KeyPatterns(l0, key, value, l2) ==
    << <<"CB:l0,key:value,l2", l0, key, value, l2>>,
       <<"CB:l0,key:value", l0, key, value>>,
       <<"CB:l0,key", l0, key>> >>

RECURSIVE AttrEmits(_, _, _)
AttrEmits(l0, attrs, l2) ==
    IF attrs = <<>> THEN <<>>
    ELSE KeyPatterns(l0, Head(attrs)[1], Head(attrs)[2], l2)
            \o AttrEmits(l0, Tail(attrs), l2)

\* the names onMessageRecieved emits for a frame, in the order of its emits
Emits(frame) ==
    IF ~frame.binary THEN << <<"frame">> >>
    ELSE LET l0 == frame.tag
             l2 == FirstChildTag(frame)
         IN << <<"frame">>, TagEvent(MsgIdOf(frame)) >>
                \o AttrEmits(l0, frame.attrs, l2)
                \o << <<"CB:l0,,l2", l0, l2>>, <<"CB:l0", l0>> >>

\* anyTriggered after the emits: ws.emit is true when the name has a listener
RECURSIVE AnyTriggered(_, _)
AnyTriggered(names, on) ==
    IF names = <<>> THEN FALSE
    ELSE LET rest == AnyTriggered(Tail(names), on)
         IN (Head(names) \in on) \/ rest

\* if(!anyTriggered && logger.level === 'debug')
ReportsUnhandled_AnyLevel(anyTriggered, level) == ~anyTriggered
ReportsUnhandled(anyTriggered, level) == ~anyTriggered /\ level = "debug"

\* the names listeners are registered for
ListenerNames ==
    { <<"frame">>, TagEvent("1"), <<"CB:l0,key:value", "iq", "type", "result">>,
      <<"CB:l0,,l2", "iq", "pair-device">>, <<"CB:l0", "iq">> }

NoRoute == [frame |-> [binary |-> FALSE, tag |-> "iq", attrs |-> <<>>, content |-> "noArray"],
            level |-> "info", emitted |-> <<>>, had |-> {}, anyTriggered |-> FALSE,
            reported |-> FALSE]

InitRouter ==
    /\ wsOn = {}
    /\ routed = NoRoute
    /\ routes = 0

\* ws.on(name, listener), ws.off(name, listener)
RouterOn(name) ==
    /\ name \notin wsOn
    /\ wsOn' = wsOn \cup {name}
    /\ UNCHANGED <<routed, routes>>
RouterOff(name) ==
    /\ name \in wsOn
    /\ wsOn' = wsOn \ {name}
    /\ UNCHANGED <<routed, routes>>

\* the callback of noise.decodeFrame for one frame
RouteFrame(frame, level) ==
    /\ routes < MaxRoutes
    /\ routes' = routes + 1
    /\ LET names == Emits(frame)
           any == AnyTriggered(names, wsOn)
       IN routed' = [frame |-> frame, level |-> level, emitted |-> names,
                     had |-> {i \in 1..Len(names) : names[i] \in wsOn},
                     anyTriggered |-> any,
                     reported |-> frame.binary /\ ReportsUnhandled(any, level)]
    /\ UNCHANGED wsOn

NextRouter ==
    \/ \E name \in ListenerNames : RouterOn(name) /\ UNCHANGED offRouter
    \/ \E name \in ListenerNames : RouterOff(name) /\ UNCHANGED offRouter
    \/ \E frame \in Frames, level \in LogLevels : RouteFrame(frame, level) /\ UNCHANGED offRouter

(***************************************************************************)
(* The creds.update listener                                               *)
(***************************************************************************)
\* a name that is not there: update.me?.name of an update without me, or
\* without me.name
Undefined == "undefined"
PushNames == {"a", "b"}
NoMe == [set |-> FALSE, name |-> Undefined]
Me(name) == [set |-> TRUE, name |-> name]
\* the fields of creds an update of the socket carries
CounterFields == {"nextPreKeyId", "accountSyncCounter", "lastAccountSyncTimestamp"}
\* Partial<AuthenticationCreds>: me, or one of the counters
CredsUpdates ==
    [field : {"me"}, me : {Me(n) : n \in PushNames \cup {Undefined}}, value : {0}]
        \cup [field : CounterFields, me : {NoMe}, value : 1..MaxCredsValue]

NoCredsUpdate == [update |-> [field |-> "none", me |-> NoMe, value |-> 0],
                  before |-> NoMe, presence |-> FALSE, name |-> Undefined]

InitCreds ==
    /\ sockCreds = [me |-> NoMe, nextPreKeyId |-> 0, accountSyncCounter |-> 0,
                    lastAccountSyncTimestamp |-> 0]
    /\ lastCredsUpdate = NoCredsUpdate
    /\ credsEmits = 0

\* const name = update.me?.name
NameOf(update) == IF update.field = "me" THEN update.me.name ELSE Undefined

\* if(creds.me?.name !== name)
NameDiffers(creds, name) == creds.me.name # name

\* Object.assign(creds, update)
Assigned(creds, update) ==
    IF update.field = "me"
    THEN [creds EXCEPT !.me = update.me]
    ELSE [creds EXCEPT ![update.field] = update.value]

\* ev.on('creds.update', update => ...)
OnCredsUpdate(update) ==
    /\ credsEmits < MaxCredsEmits
    /\ credsEmits' = credsEmits + 1
    /\ LET name == NameOf(update)
       IN lastCredsUpdate' = [update |-> update, before |-> sockCreds.me,
                              presence |-> NameDiffers(sockCreds, name), name |-> name]
    /\ sockCreds' = Assigned(sockCreds, update)

NextCreds ==
    \E update \in CredsUpdates : OnCredsUpdate(update) /\ UNCHANGED offCreds

(***************************************************************************)
(* The specifications                                                      *)
(***************************************************************************)
InitRelaySpec == InitSocket /\ InitRelay /\ InitSync /\ InitMutex /\ InitFrames /\ InitKeepAlive /\ InitBuffer /\ InitLogout /\ InitPreKeys /\ InitSessions /\ InitPatch /\ InitRouter /\ InitCreds

SpecRelay == InitRelaySpec /\ [][NextRelay]_vars

Init == InitSocket /\ InitIdle /\ InitSync /\ InitMutex /\ InitFrames /\ InitKeepAlive /\ InitBuffer /\ InitLogout /\ InitPreKeys /\ InitSessions /\ InitPatch /\ InitRouter /\ InitCreds

Next == NextSocket /\ UNCHANGED offSocket

Spec == Init /\ [][Next]_vars

\* the creds of a device that is paired and has synced: creds.me is set
PairedCreds == loggedIn /\ myAppStateKeyId /\ accountSyncCounter = 1 /\ qrTimeout = 0

InitSyncSpec == InitSocket /\ InitIdle /\ InitSync /\ InitMutex /\ InitFrames /\ InitKeepAlive /\ InitBuffer /\ InitLogout /\ InitPreKeys /\ InitSessions /\ InitPatch /\ InitRouter /\ InitCreds

SpecSync == InitSyncSpec /\ [][NextSync]_vars

\* the for loop that builds the nodes, and the query sent, when the passes
\* of the while loop are followed without end: requests stops counting at
\* MaxRequests
SendSyncQueryAgain ==
    /\ rsPhase = "loop"
    /\ collectionsToHandle # {}
    /\ requests' = [n \in Names |->
                    IF n \in collectionsToHandle
                    THEN Min(requests[n] + 1, MaxRequests) ELSE requests[n]]
    /\ rsPhase' = "query"
    /\ lastFailure' = NoFailure
    /\ UNCHANGED <<syncVersion, collectionsToHandle, attemptsMap, globalMutationMap,
                   decoded, mutationEvents, rsCalls, callQuiet, versionAtCall>>

Called == \E c \in CollectionChoices : resyncAppState(c) /\ UNCHANGED offSync
Asked == SendSyncQueryAgain /\ UNCHANGED offSync
Answered == \E present \in SUBSET collectionsToHandle : QueryAnswered(present) /\ UNCHANGED offSync
Thrown == QueryThrows /\ UNCHANGED offSync
Handled == \E n \in Names, o \in Outcomes : HandleDecoded(n, o) /\ UNCHANGED offSync
Finished == FinishResync /\ UNCHANGED offSync

NextSyncLoop == Called \/ Asked \/ Answered \/ Thrown \/ Handled \/ Finished

InitSyncLoopSpec == InitSyncSpec /\ PairedCreds

\* every await of the call ends: the query is answered or throws, the
\* decoders return or throw
SpecSyncLoop ==
    /\ InitSyncLoopSpec
    /\ [][NextSyncLoop]_vars
    /\ WF_vars(Asked)
    /\ WF_vars(Answered \/ Thrown)
    /\ WF_vars(Handled)
    /\ WF_vars(Finished)

InitMutexSpec == InitSocket /\ InitIdle /\ InitSync /\ InitMutex /\ InitFrames /\ InitKeepAlive /\ InitBuffer /\ InitLogout /\ InitPreKeys /\ InitSessions /\ InitPatch /\ InitRouter /\ InitCreds

SpecMutex == InitMutexSpec /\ [][NextMutex]_vars

InitFramesSpec == InitSocket /\ InitIdle /\ InitSync /\ InitMutex /\ InitFrames /\ InitKeepAlive /\ InitBuffer /\ InitLogout /\ InitPreKeys /\ InitSessions /\ InitPatch /\ InitRouter /\ InitCreds /\ loggedIn /\ myAppStateKeyId /\ accountSyncCounter = 1

SpecFrames == InitFramesSpec /\ [][NextFrames]_vars

InitKeepAliveSpec == InitSocket /\ InitIdle /\ InitSync /\ InitMutex /\ InitFrames /\ InitKeepAlive /\ InitBuffer /\ InitLogout /\ InitPreKeys /\ InitSessions /\ InitPatch /\ InitRouter /\ InitCreds

SpecKeepAlive == InitKeepAliveSpec /\ [][NextKeepAlive]_vars

InitBufferSpec == InitSocket /\ InitIdle /\ InitSync /\ InitMutex /\ InitFrames /\ InitKeepAlive /\ InitBuffer /\ InitLogout /\ InitPreKeys /\ InitSessions /\ InitPatch /\ InitRouter /\ InitCreds

SpecBuffer == InitBufferSpec /\ [][NextBuffer]_vars

\* what was scheduled runs and what is awaited returns; no message has to arrive
SpecBufferFair ==
    /\ InitBufferSpec
    /\ [][NextBuffer]_vars
    /\ WF_vars(Started)
    /\ WF_vars(Resynced)
    /\ WF_vars(Processed)
    /\ WF_vars(Settled)

InitLogoutSpec == InitSocket /\ InitIdle /\ InitSync /\ InitMutex /\ InitFrames /\ InitKeepAlive /\ InitBuffer /\ InitLogout /\ InitPreKeys /\ InitSessions /\ InitPatch /\ InitRouter /\ InitCreds

SpecLogout == InitLogoutSpec /\ [][NextLogout]_vars

InitPreKeysSpec == InitSocket /\ InitIdle /\ InitSync /\ InitMutex /\ InitFrames /\ InitKeepAlive /\ InitBuffer /\ InitLogout /\ InitPreKeysDrawn /\ InitSessions /\ InitPatch /\ InitRouter /\ InitCreds /\ PairedCreds

SpecPreKeys == InitPreKeysSpec /\ [][NextPreKeys]_vars

InitSessionsSpec == InitSocket /\ InitRelay /\ InitSync /\ InitMutex /\ InitFrames /\ InitKeepAlive /\ InitBuffer /\ InitLogout /\ InitPreKeys /\ InitSessions /\ InitPatch /\ InitRouter /\ InitCreds /\ PairedCreds

SpecSessions == InitSessionsSpec /\ [][NextSessions]_vars

InitPatchSpec == InitSocket /\ InitIdle /\ InitSync /\ InitMutex /\ InitFrames /\ InitKeepAlive /\ InitBuffer /\ InitLogout /\ InitPreKeys /\ InitSessions /\ InitPatch /\ InitRouter /\ InitCreds

SpecPatch == InitPatchSpec /\ [][NextPatch]_vars

InitRouterSpec == InitSocket /\ InitIdle /\ InitSync /\ InitMutex /\ InitFrames /\ InitKeepAlive /\ InitBuffer /\ InitLogout /\ InitPreKeys /\ InitSessions /\ InitPatch /\ InitRouter /\ InitCreds /\ PairedCreds

SpecRouter == InitRouterSpec /\ [][NextRouter]_vars

InitCredsSpec == InitSocket /\ InitIdle /\ InitSync /\ InitMutex /\ InitFrames /\ InitKeepAlive /\ InitBuffer /\ InitLogout /\ InitPreKeys /\ InitSessions /\ InitPatch /\ InitRouter /\ InitCreds /\ PairedCreds

SpecCreds == InitCredsSpec /\ [][NextCreds]_vars

\* timers fire when due and time passes
SpecKeepAliveFair ==
    /\ InitKeepAliveSpec
    /\ [][NextKeepAlive]_vars
    /\ WF_vars(Tick)
    /\ WF_vars(Advance)

(***************************************************************************)
(* Claims about the socket, checked under Spec                             *)
(***************************************************************************)
CloseEvents == SelectSeq(evLog, LAMBDA e : e.connection = "close")

\* what end() may change: everything of the socket but the count of its calls
endState == <<wsState, wsListeners, closed, keepAliveReq, qrTimer, evListening,
              evLog, epoch, queries>>

\* C1: however often end(error) is called, exactly one connection.update with
\* connection = 'close' is emitted; it carries the error of the first call, and
\* a later call emits nothing and changes no state.
C1_EndEmitsCloseOnce ==
    /\ [](/\ endCalls = 0 => Len(CloseEvents) = 0
          /\ endCalls >= 1 => /\ Len(CloseEvents) = 1
                              /\ CloseEvents[1].error = firstEndError
                              /\ closed)
    /\ [][(closed /\ endCalls' # endCalls) => UNCHANGED endState]_vars

\* end() was called three times, first by the keep-alive, and one close was emitted
C1_Witness ==
    /\ endCalls = MaxEndCalls
    /\ firstEndError = "connectionLost"
    /\ Len(CloseEvents) = 1

\* C2: a query that returns successfully returns a frame whose attrs.id is the
\* id of its node (generated when the caller gave none), and a query whose
\* timeout has elapsed is never resolved by a frame that arrives later.
C2_QueryCorrelation ==
    /\ [](\A q \in QuerySlots :
            queries[q].st = "ok" => /\ queries[q].frameId = queries[q].id
                                    /\ queries[q].wait = "resolved")
    /\ [][\A q \in QuerySlots :
            queries[q].wait = "timedOut" => /\ queries'[q].wait = "timedOut"
                                            /\ queries'[q].st = queries[q].st
                                            /\ queries'[q].frameId = NoId]_vars

\* one query with a generated tag got its reply while another one had timed out
C2_Witness ==
    \E q, p \in QuerySlots :
        /\ queries[q].st = "ok"
        /\ queries[q].id = generateMessageTag(epoch - 1)
        /\ queries[p].wait = "timedOut"
        /\ queries[p].err = "timedOut"

\* C3: once end() has closed the connection and the socket is closed, every
\* query that was pending when end() ran has failed with connectionClosed.
C3_PendingQueriesFailOnClose ==
    (closed /\ wsState = "CLOSED") =>
        \A q \in QuerySlots :
            queries[q].pendAtEnd => /\ queries[q].st = "failed"
                                    /\ queries[q].err = "connectionClosed"

(***************************************************************************)
(* Claims about the relay, checked under SpecRelay                         *)
(***************************************************************************)
\* how many `to` nodes of the last stanza are addressed to jid
ToCount(jid) == Cardinality({i \in 1..Len(lastStanza.to) : lastStanza.to[i] = jid})

\* C4: in a group send without participant, a device already recorded in
\* sender-key-memory gets no sender-key distribution node, every targeted
\* device not yet recorded gets exactly one, the memory afterwards holds every
\* targeted device, and the stanza carries exactly one enc{skmsg}; so a send to
\* devices that are all recorded carries no `to` node.
C4_SenderKeyEconomy ==
    (lastStanza.kind = "group" /\ lastStanza.participant = NoJid) =>
        /\ \A j \in lastStanza.memBefore : ToCount(j) = 0
        /\ \A j \in lastStanza.targets \ lastStanza.memBefore : ToCount(j) = 1
        /\ SeqRange(lastStanza.to) \subseteq lastStanza.targets
        /\ senderKeyMemory = lastStanza.memBefore \cup lastStanza.targets
        /\ lastStanza.skmsg = 1
        /\ (lastStanza.targets \subseteq lastStanza.memBefore => lastStanza.to = <<>>)

\* a later send to the group finds every targeted device recorded and sends no
\* `to` node
C4_Witness ==
    /\ lastStanza.kind = "group"
    /\ lastStanza.participant = NoJid
    /\ Cardinality(lastStanza.targets) >= 3
    /\ lastStanza.targets \subseteq lastStanza.memBefore
    /\ lastStanza.to = <<>>
    /\ lastStanza.skmsg = 1

\* C5: a relay with participant p addresses exactly one `to` node, to p, and
\* for a destination that is no group the stanza carries device_fanout = false.
C5_RetryIsolation ==
    lastStanza.participant # NoJid =>
        /\ lastStanza.to = <<lastStanza.participant>>
        /\ (lastStanza.kind = "direct" => lastStanza.fanout = "false")

\* a 1-1 retry to another device of the peer, whose caller asked for
\* device_fanout = true
C5_Witness ==
    /\ lastStanza.kind = "direct"
    /\ lastStanza.participant = jidEncode("a", 2)
    /\ lastStanza.peer = "a"
    /\ lastStanza.additional = "true"
    /\ lastStanza.fanout = "false"
    /\ userDevicesCache["a"].present

\* the devices USync reports for a user: the entries of its device list that
\* are devices and, when not device 0, carry a key-index
Reported(u) ==
    {jidEncode(u, e.id) : e \in {x \in SeqRange(directory[u]) :
                                    x.tag = "device" /\ (x.id = 0 \/ x.keyIndex)}}

\* C6: in a 1-1 send without participant the jids of the `to` nodes are the
\* devices of the peer and of oneself as USync reports them, with device 0 of
\* both, without the sending device.
C6_FanoutCompleteness ==
    (lastStanza.kind = "direct" /\ lastStanza.participant = NoJid) =>
        SeqRange(lastStanza.to) =
            ({jidEncode(MyUser, 0), jidEncode(lastStanza.peer, 0)}
                \cup Reported(MyUser) \cup Reported(lastStanza.peer))
            \ {jidEncode(MyUser, MyDevice)}

\* a send to a peer for whom USync reports no device 0, and a device of mine
\* beside the sending one
C6_Witness ==
    /\ lastStanza.kind = "direct"
    /\ lastStanza.participant = NoJid
    /\ lastStanza.peer = "a"
    /\ jidEncode("a", 0) \notin Reported("a")
    /\ jidEncode(MyUser, MyDevice) \in Reported(MyUser)
    /\ SeqRange(lastStanza.to) =
          {jidEncode(MyUser, 0), jidEncode(MyUser, 2), jidEncode("a", 0),
           jidEncode("a", 1), jidEncode("a", 2)}

(***************************************************************************)
(* Claims about the app-state sync, checked under SpecSync                 *)
(***************************************************************************)
\* the step just taken was the catch branch for collection n
FailedStep(n) == attemptsMap'[n] = attemptsMap[n] + 1

\* C7 as stated, for the part the code does not follow: within one call the
\* second failure of a collection abandons it.
C7_SecondFailureAbandons ==
    \A n \in Names :
        (rsPhase # "idle" /\ attemptsMap[n] >= 2) => n \notin collectionsToHandle

\* C7: within one call, when the decoding of a collection fails its stored
\* version is wiped; it is retried after its first and after its second
\* failure and abandoned at its third (at once when the error has status 404
\* or is a TypeError), while every other collection keeps its stored state
\* and its place among the collections to handle.
C7_FailureWipesAndRetries ==
    [][\A n \in Names :
          FailedStep(n) =>
              /\ syncVersion'[n] = NoVersion
              /\ lastFailure'[1] = n
              /\ (n \in collectionsToHandle') =
                     (/\ n \in collectionsToHandle
                      /\ attemptsMap[n] < MAX_SYNC_ATTEMPTS
                      /\ lastFailure'[2] = "macMismatch")
              /\ \A m \in Names \ {n} :
                    /\ syncVersion'[m] = syncVersion[m]
                    /\ (m \in collectionsToHandle') = (m \in collectionsToHandle)
                    /\ attemptsMap'[m] = attemptsMap[m]]_vars

\* the third failed verification of "regular" abandons it, while
\* "critical_block" has completed and keeps the state it synced
C7_Witness ==
    /\ rsPhase = "loop"
    /\ lastFailure = <<"regular", "macMismatch">>
    /\ attemptsMap["regular"] = MAX_SYNC_ATTEMPTS + 1
    /\ syncVersion["regular"] = NoVersion
    /\ collectionsToHandle = {}
    /\ syncVersion["critical_block"] = MaxVersion
    /\ attemptsMap["critical_block"] = 0

\* every answer handled for n in this call has failed
AllFailed(n) ==
    attemptsMap[n] = requests[n] - (IF n \in decoded \/ rsPhase = "query" THEN 1 ELSE 0)

\* C8: within one call a collection fails at most MAX_SYNC_ATTEMPTS + 1 times,
\* that is, it is retried at most MAX_SYNC_ATTEMPTS times and then abandoned;
\* an error with status 404 or a TypeError abandons it at once; so at most
\* MAX_SYNC_ATTEMPTS + 1 requests are made for a collection whose every
\* answer fails.
C8_BoundedRetries ==
    \A n \in Names :
        /\ attemptsMap[n] <= MAX_SYNC_ATTEMPTS + 1
        /\ n \in collectionsToHandle => attemptsMap[n] <= MAX_SYNC_ATTEMPTS
        /\ (lastFailure[1] = n /\ lastFailure[2] \in {"notFound", "TypeError"})
              => n \notin collectionsToHandle
        /\ (rsPhase # "idle" /\ AllFailed(n)) => requests[n] <= MAX_SYNC_ATTEMPTS + 1

\* "regular" has failed in each of its three requests and is abandoned, and
\* "critical_block" was abandoned at its first failure, a 404
C8_Witness ==
    /\ rsPhase = "loop"
    /\ requests["regular"] = MAX_SYNC_ATTEMPTS + 1
    /\ attemptsMap["regular"] = MAX_SYNC_ATTEMPTS + 1
    /\ "regular" \notin collectionsToHandle
    /\ lastFailure = <<"critical_block", "notFound">>
    /\ attemptsMap["critical_block"] = 1
    /\ requests["critical_block"] = MAX_SYNC_ATTEMPTS + 1
    /\ "critical_block" \notin collectionsToHandle

\* C9: a call of resyncAppState to which the server returns no patch and no
\* snapshot hands no mutation to onMutation and leaves every stored version
\* as it was, also right after a call that has synced the collections.
C9_QuietResyncIsNoOp ==
    (rsPhase = "idle" /\ rsCalls > 0 /\ callQuiet) =>
        /\ mutationEvents = {}
        /\ syncVersion = versionAtCall

\* the second call, after a first one that synced both collections, has
\* returned without a patch or snapshot from the server
C9_Witness ==
    /\ rsPhase = "idle"
    /\ rsCalls = 2
    /\ callQuiet
    /\ versionAtCall["regular"] = MaxVersion
    /\ versionAtCall["critical_block"] = SnapshotVersion
    /\ syncVersion = versionAtCall
    /\ mutationEvents = {}

(***************************************************************************)
(* Claims about the tasks, checked under SpecMutex                         *)
(***************************************************************************)
\* task t is in the body of a resyncAppState call
InResync(t) == tasks[t].pc = "resync"
\* task t is in the body of resyncAppState, of appPatch or of upsertMessage
InCycle(t) == tasks[t].pc \in {"resync", "patchQuery", "upsert"}

\* C10: a task in the body of resyncAppState holds the processing mutex and
\* the key-store transaction, and no other task is in the body of a
\* resyncAppState, an appPatch or an upsertMessage meanwhile, whichever entry
\* point the task came through.
C10_SyncCycleSerialized ==
    \A t \in TaskIds :
        InResync(t) =>
            /\ mutexHolder = t
            /\ txHolder = t
            /\ \A u \in TaskIds \ {t} : ~InCycle(u)

(***************************************************************************)
(* Claims about the inbound frames, checked under SpecFrames               *)
(***************************************************************************)
\* what the handler of frame k has sent and emitted, in order
LogOf(k) == SelectSeq(frameLog, LAMBDA e : e.frame = k)
\* the qr events of the handler of frame k
QrOf(k) == SelectSeq(frameLog, LAMBDA e : e.frame = k /\ e.what = "qr")

\* C11: a frame is routed only when no handler of an earlier frame is
\* suspended on an await.
C11_HandlersRunToCompletion ==
    [][framesRouted' # framesRouted => \A k \in FrameSlots : ~Suspended(k)]_vars

\* C18: the handler of a pair-device stanza with refs r1..rn first sends the
\* result iq of that stanza, then emits qr events for r1, r2, ... in that order,
\* one when the result is sent and one each time its timer fires; when the
\* timer fires (or the result is sent) with no ref left and the socket open,
\* end is called with timedOut; so it emits at most n qr events.
C18_QrRotation ==
    /\ [](\A k \in FrameSlots :
            handlers[k].kind = "pair-device" =>
                /\ LogOf(k)[1].what = "result"
                /\ \A i \in 2..Len(LogOf(k)) : LogOf(k)[i].what = "qr"
                /\ [i \in 1..Len(QrOf(k)) |-> QrOf(k)[i].ref] \o handlers[k].refs
                      = handlers[k].given
                /\ Len(QrOf(k)) <= Len(handlers[k].given))
    /\ [][\A k \in FrameSlots :
            /\ Len(QrOf(k))' # Len(QrOf(k)) =>
                  /\ Len(QrOf(k))' = Len(QrOf(k)) + 1
                  /\ handlers[k].pc = "sendNode" \/ Armed(k)
                  /\ Armed(k)'
            /\ ( /\ handlers[k].kind = "pair-device"
                 /\ handlers[k].refs = <<>>
                 /\ wsState = "OPEN"
                 /\ \/ Armed(k) /\ k \notin armedTimers'
                    \/ handlers[k].pc = "sendNode" /\ handlers'[k].pc = "done" )
               => /\ endCalls' = endCalls + 1
                  /\ endCalls = 0 => firstEndError' = "timedOut"]_vars

\* both refs of a pair-device stanza were shown and the third lifetime ended
\* the connection with timedOut
C18_Witness ==
    \E k \in FrameSlots :
        /\ handlers[k].kind = "pair-device"
        /\ handlers[k].given = <<"r1", "r2">>
        /\ handlers[k].refs = <<>>
        /\ Len(QrOf(k)) = 2
        /\ QrOf(k)[1].ref = "r1"
        /\ QrOf(k)[2].ref = "r2"
        /\ closed
        /\ firstEndError = "timedOut"

C20_PairSuccessOrder ==
    /\ [](\A k \in FrameSlots :
            handlers[k].kind = "pair-success" =>
                \/ /\ LogOf(k) = <<>>
                   /\ handlers[k].pc = "caught"
                \/ /\ Len(LogOf(k)) = 3
                   /\ LogOf(k)[1].what = "creds.update" /\ LogOf(k)[1].ref = "me"
                   /\ LogOf(k)[2].what = "isNewLogin"
                   /\ LogOf(k)[3].what = "reply")
    /\ [][\A k \in FrameSlots :
            (handlers'[k].pc = "caught" /\ handlers[k].pc # "caught") =>
                /\ endCalls' = endCalls + 1
                /\ endCalls = 0 =>
                      firstEndError' = IF handlers[k].pc = "sendNode" THEN "sendError"
                                                                     ELSE "pairingError"]_vars

\* the pairing was derived, both events emitted and the reply handed to the
\* socket, whose sending then failed and ended the connection
C20_Witness ==
    \E k \in FrameSlots :
        /\ handlers[k].kind = "pair-success"
        /\ handlers[k].pc = "caught"
        /\ Len(LogOf(k)) = 3
        /\ LogOf(k)[3].what = "reply"
        /\ firstEndError = "sendError"
        /\ closed

(***************************************************************************)
(* Claims about the keep-alive                                             *)
(***************************************************************************)
\* a step of the keep-alive interval's callback
TickStep == keepAliveReq /\ untilTick = 0 /\ untilTick' = keepAliveIntervalMs

\* C16: at every keep-alive tick, if more than keepAliveIntervalMs + 5000 ms
\* have passed since the last inbound frame the connection is ended with
\* connectionLost and no ping is sent; otherwise one ping is sent if the socket
\* is open and none if it is not, and end is not called; the time since the
\* last frame only ever drops by a frame setting it to zero.
C16_KeepAliveTick ==
    [][/\ TickStep =>
            IF sinceRecv > 15000
            THEN /\ lastTick'.pings = 0
                 /\ endCalls' = endCalls + 1
                 /\ ~closed => /\ closed'
                               /\ firstEndError' = "connectionLost"
            ELSE /\ lastTick'.pings = (IF wsState = "OPEN" THEN 1 ELSE 0)
                 /\ endCalls' = endCalls
                 /\ closed' = closed
       /\ sinceRecv' < sinceRecv => sinceRecv' = 0]_vars

\* a tick found the socket open exactly keepAliveIntervalMs + 5000 ms after the
\* last frame and sent its ping
C16_Witness ==
    /\ lastTick = [pings |-> 1, ended |-> FALSE]
    /\ sinceRecv = 15000
    /\ untilTick = keepAliveIntervalMs
    /\ ~closed

\* the keep-alive runs, the connection is not closed, and the last inbound
\* frame is more than keepAliveIntervalMs + 5000 ms old
Silent == keepAliveReq /\ ~closed /\ sinceRecv > 15000

\* end was called with connectionLost: one close event, carrying connectionLost
LostClose ==
    /\ closed
    /\ firstEndError = "connectionLost"
    /\ CloseEvents = <<[connection |-> "close", error |-> "connectionLost"]>>

\* something else ended the connection first
EndedOtherwise == closed /\ firstEndError # "connectionLost"

\* C17 (as stated): once no inbound frame has arrived for more than
\* keepAliveIntervalMs + 5000 ms after the handshake, end is eventually called
\* with connectionLost and exactly one close event with connectionLost is
\* emitted (unless something else ends the connection first).
C17_SilenceEndsConnection == Silent ~> (LostClose \/ EndedOtherwise)

\* C17: once no inbound frame has arrived for more than keepAliveIntervalMs +
\* 5000 ms after the handshake, eventually end is called with connectionLost
\* and exactly one close event with connectionLost is emitted, or a frame
\* arrives before the next keep-alive tick, or something else ends the
\* connection first.
C17_LastingSilenceEndsConnection ==
    Silent ~> (LostClose \/ EndedOtherwise \/ sinceRecv <= 15000)

\* a tick has ended a handshaken connection after a silence
C17_Witness ==
    /\ handshake = "done"
    /\ lastTick.ended
    /\ LostClose
    /\ sinceRecv = SilenceCap

(***************************************************************************)
(* Claims about the event buffer and the message upsert                    *)
(***************************************************************************)
\* the places of the log the step adds
NewlyDelivered == (Len(delivered) + 1)..Len(delivered')

\* C12: an event emitted inside a buffered function reaches the subscribers
\* only with the completion of that function, and the events of one function
\* arrive in one contiguous batch; also when upsertMessage performs the initial
\* app state sync.
C12_BufferedEventsDeliveredAtCompletion ==
    [][\A i \in NewlyDelivered :
         LET c == delivered'[i].call
         IN c # NoUpsert =>
              /\ upsert'.id # c
              /\ \A j \in 1..Len(delivered) : delivered[j].call # c
              /\ \A j \in NewlyDelivered : \A k \in NewlyDelivered :
                    (j < k /\ delivered'[j].call = c /\ delivered'[k].call = c)
                        => \A n \in j..k : delivered'[n].call = c]_vars

\* C13: once connection.update reported receivedPendingNotifications without
\* the app state key, nothing is delivered before the first full resync has
\* completed, the completion of that resync leaves nothing buffered, and once
\* the app state key has arrived the buffer is eventually flushed.
C13_InitialBufferHeldUntilSync ==
    /\ [][/\ (needToFlushWithAppStateSync /\ resyncRuns' = 0) => delivered' = delivered
          /\ (needToFlushWithAppStateSync /\ resyncRuns = 0 /\ resyncRuns' = 1)
                => bufQueue' = <<>>]_vars
    /\ (needToFlushWithAppStateSync /\ keyArrived) ~> ~isBuffering

Did(k, what) == \E i \in 1..Len(LogOf(k)) : LogOf(k)[i].what = what

\* C21: the handler of a success stanza emits connection.update{open} only
\* when its active iq is answered, which it sends after the pre-key count was
\* answered and after the pre-keys were uploaded if and only if that count is
\* at most MIN_PREKEY_COUNT; a handler one of whose queries failed emits no
\* open.
C21_OpenAfterLoginQueries ==
    /\ [](\A k \in FrameSlots : handlers[k].pc = "rejected" => ~Did(k, "open"))
    /\ [][\A k \in FrameSlots :
            (Did(k, "open")' /\ ~Did(k, "open")) =>
                /\ handlers[k].pc = "passiveIq"
                /\ handlers'[k].pc = "done"
                /\ handlers[k].preKeyCount \in PreKeyCounts
                /\ Did(k, "creds.update") <=> handlers[k].preKeyCount <= 5]_vars

\* a success stanza whose pre-key count was exactly MIN_PREKEY_COUNT opened
\* the connection
C21_Witness ==
    \E k \in FrameSlots :
        /\ handlers[k].kind = "success"
        /\ handlers[k].pc = "done"
        /\ Did(k, "open")
        /\ Did(k, "creds.update")
        /\ handlers[k].preKeyCount = 5

(***************************************************************************)
(* Claims about logout, checked under SpecLogout                           *)
(***************************************************************************)
\* C22: every call of logout that has returned or thrown has called end with
\* loggedOut, and with creds.me set it has handed the remove-companion-device
\* iq to the socket before.
C22_LogoutEndsConnection ==
    \A c \in LogoutIds :
        logoutCalls[c].pc \in {"done", "rejected"} =>
            /\ logoutCalls[c].ended
            /\ loggedIn => logoutCalls[c].handed

(***************************************************************************)
(* Claims about pre-keys, checked under SpecPreKeys                        *)
(***************************************************************************)
\* C23: the update of getNextPreKeys(count), for any count >= 0, keeps
\* firstUnuploadedPreKeyId <= nextPreKeyId, in the update and in the creds it
\* is assigned to, and no step decreases either counter of the creds.
C23_CountersOrderedAndMonotone ==
    /\ [](pkCreds.firstUnuploadedPreKeyId <= pkCreds.nextPreKeyId)
    /\ [](upload.pc = "query" =>
            upload.update.firstUnuploadedPreKeyId <= upload.update.nextPreKeyId)
    /\ [][/\ pkCreds'.firstUnuploadedPreKeyId >= pkCreds.firstUnuploadedPreKeyId
          /\ pkCreds'.nextPreKeyId >= pkCreds.nextPreKeyId]_vars

\* an upload that had enough unuploaded keys was accepted after one that
\* generated keys
C23_Witness ==
    /\ uploads >= 2
    /\ upload.result = "accepted"
    /\ upload.count > 0
    /\ upload.newPreKeys = {}
    /\ pkCreds = upload.update
    /\ pkCreds.firstUnuploadedPreKeyId < pkCreds.nextPreKeyId

\* C24: getNextPreKeys(count) selects exactly the ids firstUnuploadedPreKeyId ..
\* firstUnuploadedPreKeyId + count - 1, all of them in the key store, and
\* generates exactly those of them that are >= nextPreKeyId, with
\* lastPreKeyId = firstUnuploadedPreKeyId + count - 1.
C24_SelectedAndGenerated ==
    upload.pc = "query" =>
        LET first == upload.from.firstUnuploadedPreKeyId
            wanted == first..(first + upload.count - 1)
        IN  /\ upload.preKeys = wanted
            /\ wanted \subseteq pkStore
            /\ upload.lastPreKeyId = first + upload.count - 1
            /\ upload.newPreKeys = {id \in wanted : id >= upload.from.nextPreKeyId}

\* some of the selected keys existed and some were generated
C24_Witness ==
    /\ upload.pc = "query"
    /\ upload.newPreKeys # {}
    /\ upload.preKeys \ upload.newPreKeys # {}

\* C25: uploadPreKeys emits creds.update, setting firstUnuploadedPreKeyId to
\* max(firstUnuploadedPreKeyId, lastPreKeyId + 1), only in the step in which
\* the upload query is answered without error; after a failed or timed out
\* query no creds.update was emitted and the counters are those of before.
C25_UpdateOnlyAfterAccept ==
    /\ [][pkEmitted' # pkEmitted =>
            /\ upload.pc = "query"
            /\ upload'.result = "accepted"
            /\ pkCreds'.firstUnuploadedPreKeyId =
                   Max(pkCreds.firstUnuploadedPreKeyId, upload.lastPreKeyId + 1)]_vars
    /\ []((upload.pc = "idle" /\ upload.result = "failed") =>
            /\ pkCreds = upload.from
            /\ pkEmitted = upload.emittedBefore)

\* an upload of some keys failed after an earlier one was accepted
C25_Witness ==
    /\ upload.pc = "idle"
    /\ upload.result = "failed"
    /\ upload.count > 0
    /\ pkEmitted >= 1

(***************************************************************************)
(* Claims about sessions and devices, checked under SpecSessions           *)
(***************************************************************************)
\* C26: assertSessions(jids, force) sends one key-fetch iq listing exactly the
\* jids without stored session (all jids when force), sends none when there
\* is no such jid, and returns true exactly when an iq was sent and the
\* sessions of its answer were injected.
C26_FetchMissingSessions ==
    sessOp.op = "assert" =>
        LET missing == SelectSeq(sessOp.jids,
                           LAMBDA j : sessOp.flag \/ <<j.user, j.device>> \notin sessOp.storeBefore)
        IN  /\ sessOp.iqs = IF missing = <<>> THEN <<>> ELSE <<missing>>
            /\ (sessOp.pc = "idle" /\ missing = <<>>) => sessOp.returned = "false"
            /\ sessOp.returned = "true" <=> (sessOp.iqs # <<>> /\ sessOp.answer = "result")
            /\ sessOp.answer = "result" =>
                   /\ sessOp.pc = "idle"
                   /\ sessionStore = sessOp.storeBefore \cup sessOp.injected
                   /\ \E ans \in Answers(sessOp.iqs[1]) :
                          sessOp.injected = {<<ans[i].user, ans[i].device>> : i \in 1..Len(ans)}

\* a call without force fetched the one jid of three that had no session
C26_Witness ==
    /\ sessOp.op = "assert"
    /\ ~sessOp.flag
    /\ Len(sessOp.jids) = 3
    /\ Len(sessOp.iqs) = 1
    /\ Len(sessOp.iqs[1]) = 1
    /\ sessOp.returned = "true"

\* C27: the stanza of a relay has a device-identity child exactly when one of
\* the encryptions for a device of that relay returned type pkmsg.
C27_DeviceIdentityIffPkmsg ==
    sessOp.op = "relay" =>
        (sessOp.identity <=> \E e \in sessOp.encs : e[2] = "pkmsg")

\* a relay to a user in which only a device of the other user got a pkmsg
C27_Witness ==
    /\ sessOp.op = "relay"
    /\ ~sessOp.flag
    /\ sessOp.identity
    /\ \E e \in sessOp.encs : e[1].user = MyUser
    /\ \A e \in sessOp.encs : e[2] = "pkmsg" => e[1].user # MyUser

\* C28: getUSyncDevices sends the USync iq only when a target user misses the
\* device cache or useCache is false; with every target cached no query is
\* sent.
C28_QueryOnlyOnCacheMiss ==
    (sessOp.op = "usync" /\ sessOp.jids # <<>>) =>
        (sessOp.iqs # <<>> => sessOp.users # <<>>)

(***************************************************************************)
(* Claims about appPatch, checked under SpecPatch                          *)
(***************************************************************************)
\* C29 as stated: after a failed or timed out patch iq the stored version of
\* the collection is the one the preceding resync left, and no own-event
\* mutations are emitted.
C29_FailedPatchKeepsResyncedState ==
    patch.result = "queryThrew" =>
        /\ syncVersion[patch.name] = patch.afterResync
        /\ ~patch.ownEvents

\* C29: appPatch sends the patch after its resync has returned, with version
\* = version of the new state - 1; the new state is stored, and own-event
\* mutations emitted, only once the patch iq is answered without error; after
\* a failed or timed out iq the stored version is the one of before the call
\* and no own-event mutations are emitted.
C29_PatchPersistedAfterAnswer ==
    /\ patch.pc = "query" =>
          /\ patch.resynced
          /\ patch.sentVersion = patch.state - 1
          /\ patch.state = patch.initial + 1
          /\ syncVersion[patch.name] = patch.afterResync
          /\ ~patch.ownEvents
    /\ patch.result = "sent" =>
          /\ syncVersion[patch.name] = patch.state
          /\ patch.ownEvents = patch.emitOwnEvents
    /\ patch.result \in {"queryThrew", "resyncThrew"} =>
          /\ syncVersion[patch.name] = patch.atCall
          /\ ~patch.ownEvents

\* the patch iq failed after a resync that had advanced the stored version
C29_Witness ==
    /\ patch.result = "queryThrew"
    /\ patch.afterResync # patch.atCall
    /\ patch.emitOwnEvents

(***************************************************************************)
(* Claims about the resolvers of queries, checked under Spec               *)
(***************************************************************************)
\* C30: at every moment the queries with a registered TAG:<id> resolver are
\* the queries still awaiting a reply: a query that has resolved or rejected
\* has no resolver left.
C30_ResolversAreAwaitingQueries ==
    \A q \in QuerySlots : queries[q].tagL <=> queries[q].st = "pending"

\* C31: a query that failed because its node could not be sent has its
\* pending entry removed at that point: it has no TAG:<id> resolver and no
\* close listener left, and its wait is not pending.
C31_SendFailureRemovesEntry ==
    \A q \in QuerySlots :
        (queries[q].st = "failed" /\ queries[q].err = "connectionClosed") =>
            /\ ~queries[q].tagL
            /\ queries[q].wait # "pending"

(***************************************************************************)
(* Claims about the router, checked under SpecRouter                       *)
(***************************************************************************)
\* the order the claim gives for the emissions of a binary node
ExpectedOrder(f) ==
    LET c == FirstChildTag(f)
        perKey(i) == << <<"CB:l0,key:value,l2", f.tag, f.attrs[i][1], f.attrs[i][2], c>>,
                        <<"CB:l0,key:value", f.tag, f.attrs[i][1], f.attrs[i][2]>>,
                        <<"CB:l0,key", f.tag, f.attrs[i][1]>> >>
        keys == IF Len(f.attrs) = 0 THEN <<>>
                ELSE IF Len(f.attrs) = 1 THEN perKey(1)
                ELSE perKey(1) \o perKey(2)
    IN << <<"frame">>, <<"TAG:id", MsgIdOf(f)>> >> \o keys
          \o << <<"CB:l0,,l2", f.tag, c>>, <<"CB:l0", f.tag>> >>

\* C32 as stated: a binary node is reported as unhandled exactly when none of
\* its emissions had a listener, at every log level at which debug lines are
\* written.
C32_UnhandledIffNoListener ==
    (routes > 0 /\ routed.frame.binary /\ routed.level \in {"trace", "debug"}) =>
        (routed.reported <=> routed.had = {})

\* C32: for a binary node the router emits frame, TAG:<id>, for each attribute
\* key the three patterns from the longest to the shortest, then
\* <tag>,,<firstChildTag> and <tag>; the frame is reported as unhandled
\* exactly when none of these had a listener and the logger's level is debug.
C32_EmissionOrder ==
    (routes > 0 /\ routed.frame.binary) =>
        /\ routed.emitted = ExpectedOrder(routed.frame)
        /\ routed.reported <=> (routed.had = {} /\ routed.level = "debug")

\* a node with two attributes was consumed only by the listener of its last
\* pattern, at level debug
C32_Witness ==
    /\ routes > 0
    /\ routed.frame.binary
    /\ Len(routed.frame.attrs) = 2
    /\ routed.level = "debug"
    /\ routed.had = {Len(routed.emitted)}
    /\ ~routed.reported

(***************************************************************************)
(* Further claims about relays, checked under SpecRelay                    *)
(***************************************************************************)
\* C33: a group relay with participant set leaves in sender-key-memory every
\* device that was recorded before it.
C33_RetryKeepsSenderKeyMemory ==
    (lastStanza.kind = "group" /\ lastStanza.participant # NoJid) =>
        lastStanza.memBefore \subseteq senderKeyMemory

\* C34: whatever earlier calls left in the cache, getUSyncDevices returns with
\* useCache the device set it returns without.
C34_CacheTransparent ==
    \A pl \in ParticipantLists, ignoreZeroDevices \in BOOLEAN :
        SeqRange(getUSyncDevices(ParticipantJids(pl), TRUE, ignoreZeroDevices).devices)
            = SeqRange(getUSyncDevices(ParticipantJids(pl), FALSE, ignoreZeroDevices).devices)

\* C35: no stanza has two `to` nodes with the same jid.
C35_NoDuplicateRecipients ==
    \A i, j \in 1..Len(lastStanza.to) :
        i # j => lastStanza.to[i] # lastStanza.to[j]

(***************************************************************************)
(* Termination of resyncAppState, checked under SpecSyncLoop               *)
(***************************************************************************)
\* C37: every call of resyncAppState returns or throws, whatever the server
\* answers: the while loop over collectionsToHandle is left.
C37_ResyncTerminates == (rsPhase # "idle") ~> (rsPhase = "idle")

(***************************************************************************)
(* Claims about overlapping pre-key uploads, checked under SpecPreKeys     *)
(***************************************************************************)
\* C36: when an uploadPreKeys call starts while another is awaiting the
\* server's reply, the pre-key ids the two calls send to the server are
\* disjoint.
C36_OverlappingUploadsDisjoint ==
    (upload.pc = "query" /\ upload.waited) => upload.preKeys \cap upload.during = {}

(***************************************************************************)
(* Claims about pairing and the end of the connection, checked under       *)
(* SpecFrames                                                              *)
(***************************************************************************)
\* C38: once the handler of a pair-success stanza has run to its end (no
\* pair-device handler being still at its first await), no step emits a
\* connection.update carrying a qr.
C38_NoQrAfterPairSuccess ==
    [][(/\ \E k \in FrameSlots : handlers[k].kind = "pair-success" /\ handlers[k].pc = "done"
        /\ \A h \in FrameSlots : handlers[h].kind = "pair-device" => handlers[h].pc = "done")
          => ~(/\ Len(frameLog') > Len(frameLog)
               /\ frameLog'[Len(frameLog')].what = "qr")]_vars

(***************************************************************************)
(* Claims about the creds.update listener, checked under SpecCreds         *)
(***************************************************************************)
\* C39: the listener of creds.update sends a presence stanza exactly when
\* the update carries a me.name that differs from creds.me.name, sends none
\* for an update without me, and in every case merges the update into creds.
C39_PresenceOnlyOnNameChange ==
    credsEmits > 0 =>
        LET u == lastCredsUpdate.update
        IN  /\ lastCredsUpdate.presence <=>
                   (u.field = "me" /\ u.me.name # lastCredsUpdate.before.name)
            /\ u.field # "me" => ~lastCredsUpdate.presence
            /\ IF u.field = "me" THEN sockCreds.me = u.me
                                  ELSE sockCreds[u.field] = u.value

\* C40: no step emits a connection.update with connection 'open' or with a
\* qr once end() has emitted connection.update{connection: 'close'}, be it in
\* an earlier step or earlier in the same step.
C40_NoOpenOrQrAfterClose ==
    [][closed' => ~(/\ Len(frameLog') > Len(frameLog)
                    /\ frameLog'[Len(frameLog')].what \in {"open", "qr"})]_vars

====
